---- MODULE Spec2Model ----
(***************************************************************************)
(* The research-proposal scraper of Dupahar/shodhsahayak                   *)
(* (src/unnamed/part_001): the leaf functions of the extraction pipeline   *)
(* (agency resolver, date normalizer, link filter, title classifier),      *)
(* the three-strategy extraction engine, and the batch run of main()       *)
(* against the fetch collaborator and the proposals table.                 *)
(*                                                                         *)
(* JavaScript strings are TLA+ strings; Len, SubSeq and \o act on them     *)
(* character by character.  Regular expressions are modelled by scanning   *)
(* operators that accept exactly the language of the expression on the     *)
(* alphabet the sample pages use.                                          *)
(***************************************************************************)
EXTENDS Integers, Sequences, FiniteSets, TLC

(***************************************************************************)
(* String primitives (the methods of String.prototype)                     *)
(***************************************************************************)
\* s.charAt(i), 1-based: "" outside the string
Char(s, i) == IF i >= 1 /\ i <= Len(s) THEN SubSeq(s, i, i) ELSE ""

Min(S) == CHOOSE m \in S : \A n \in S : m <= n

\* a const binding: F applied to the value v
Let(v, F(_)) == F(v)

Max(S) == CHOOSE m \in S : \A n \in S : m >= n

\* s.startsWith(p) at 1-based position i
MatchAt(s, p, i) == i >= 1 /\ i + Len(p) - 1 <= Len(s) /\ SubSeq(s, i, i + Len(p) - 1) = p

startsWith(s, p) == MatchAt(s, p, 1)

\* s.includes(p)
includes(s, p) == \E i \in 1..(Len(s) - Len(p) + 1) : MatchAt(s, p, i)

\* s.indexOf(p, from), 1-based; 0 when absent
indexOf(s, p, from) ==
  Let({i \in from..(Len(s) - Len(p) + 1) : MatchAt(s, p, i)}, LAMBDA hits :
    IF hits = {} THEN 0 ELSE Min(hits))

UpperChars == "ABCDEFGHIJKLMNOPQRSTUVWXYZ"

LowerChars == "abcdefghijklmnopqrstuvwxyz"

DigitChars == "0123456789"

IsDigit(c) == Len(c) = 1 /\ includes(DigitChars, c)

IsUpper(c) == Len(c) = 1 /\ includes(UpperChars, c)

IsLower(c) == Len(c) = 1 /\ includes(LowerChars, c)

\* the regular-expression class \s
IsSpace(c) == c \in {" ", "\n", "\t", "\r"}

\* the regular-expression class \w
IsWord(c) == IsDigit(c) \/ IsUpper(c) \/ IsLower(c) \/ c = "_"

LowerChar(c) == IF IsUpper(c) THEN Char(LowerChars, indexOf(UpperChars, c, 1)) ELSE c

UpperChar(c) == IF IsLower(c) THEN Char(UpperChars, indexOf(LowerChars, c, 1)) ELSE c

\* s.toLowerCase(), by halving so that the recursion stays shallow
RECURSIVE toLowerCase(_)
toLowerCase(s) ==
  IF Len(s) = 0 THEN s
  ELSE IF Len(s) = 1 THEN LowerChar(s)
  ELSE LET h == Len(s) \div 2
       IN toLowerCase(SubSeq(s, 1, h)) \o toLowerCase(SubSeq(s, h + 1, Len(s)))

RECURSIVE toUpperCase(_)
toUpperCase(s) ==
  IF Len(s) = 0 THEN s
  ELSE IF Len(s) = 1 THEN UpperChar(s)
  ELSE LET h == Len(s) \div 2
       IN toUpperCase(SubSeq(s, 1, h)) \o toUpperCase(SubSeq(s, h + 1, Len(s)))

\* p, given in lower case, matches s at position i whatever the case of s
\* (the i flag of a regular expression)
MatchAtCI(s, p, i) ==
  /\ i >= 1 /\ i + Len(p) - 1 <= Len(s)
  /\ LowerChar(Char(s, i)) = Char(p, 1)
  /\ toLowerCase(SubSeq(s, i, i + Len(p) - 1)) = p

\* s.trim()
trim(s) ==
  IF \A i \in 1..Len(s) : IsSpace(Char(s, i)) THEN ""
  ELSE LET a == CHOOSE i \in 1..Len(s) :
                  ~IsSpace(Char(s, i)) /\ \A j \in 1..(i - 1) : IsSpace(Char(s, j))
           b == CHOOSE i \in 1..Len(s) :
                  ~IsSpace(Char(s, i)) /\ \A j \in (i + 1)..Len(s) : IsSpace(Char(s, j))
       IN SubSeq(s, a, b)

\* the value of a run of decimal digits
RECURSIVE DigitsValue(_)
DigitsValue(s) ==
  IF Len(s) = 0 THEN 0
  ELSE IF Len(s) = 1 THEN indexOf(DigitChars, s, 1) - 1
  ELSE DigitsValue(SubSeq(s, 1, Len(s) - 1)) * 10 + DigitsValue(SubSeq(s, Len(s), Len(s)))

\* n printed in decimal, left-padded with zeros to w digits (padStart)
RECURSIVE Pad(_, _)
Pad(n, w) == IF w = 0 THEN "" ELSE Pad(n \div 10, w - 1) \o Char(DigitChars, (n % 10) + 1)

\* length of the longest run of characters satisfying a class, from
\* position i (a greedy class+ or class*); the near positions are looked at
\* first because most runs are short
RunLen(s, i, Ok(_)) ==
  LET near == {j \in i..(i + 7) : j > Len(s) \/ ~Ok(Char(s, j))}
      far == {j \in (i + 8)..(Len(s) + 1) : j > Len(s) \/ ~Ok(Char(s, j))}
  IN IF i > Len(s) THEN 0
     ELSE IF near # {} THEN Min(near) - i
     ELSE Min(far) - i

(***************************************************************************)
(* Regular-expression scanning                                             *)
(***************************************************************************)
\* A match is <<first, last>>.  Scan yields the matches a /g loop
\* (exec until null, match or matchAll) visits: leftmost first, each next
\* search starting after the previous match.  M holds, for every start
\* position where the expression matches, its preferred match.
RECURSIVE Scan(_, _)
Scan(M, from) ==
  LET c == {m \in M : m[1] >= from}
  IN IF c = {} THEN <<>>
     ELSE LET m == CHOOSE x \in c : \A y \in c : x[1] <= y[1]
          IN <<m>> \o Scan(M, m[2] + 1)

\* [^\s)]
IsUrlChar(c) == Len(c) = 1 /\ ~IsSpace(c) /\ c # ")"

\* /https?:\/\/[^\s)]+/ : the preferred match at every start position
UrlMatches(s) ==
  LET pre(i) == IF MatchAt(s, "https://", i) THEN 8
                ELSE IF MatchAt(s, "http://", i) THEN 7 ELSE 0
  IN {<<i, i + pre(i) + RunLen(s, i + pre(i), IsUrlChar) - 1>> :
        i \in {j \in 1..Len(s) : pre(j) > 0 /\ RunLen(s, j + pre(j), IsUrlChar) > 0}}

\* text.match(/https?:\/\/[^\s)]+/g) || []
AllUrls(s) ==
  LET ms == Scan(UrlMatches(s), 1)
  IN [k \in 1..Len(ms) |-> SubSeq(s, ms[k][1], ms[k][2])]

includesCI(s, p) == \E i \in 1..(Len(s) - Len(p) + 1) : MatchAtCI(s, toLowerCase(p), i)

(***************************************************************************)
(* Configuration                                                           *)
(***************************************************************************)
NULL == "<null>"

researchUrls ==
  << "https://dst.gov.in/call-for-proposals",
     "https://www.dbtindia.gov.in/latest-announcement",
     "https://birac.nic.in/cfp.php",
     "https://www.icmr.gov.in/whatnew.html",
     "https://serb.gov.in/page/show/63",
     "https://www.icssr.org/funding",
     "https://www.cefipra.org/ResearchProjects",
     "https://www.igstc.org/",
     "https://tdb.gov.in/",
     "https://www.ugc.ac.in/",
     "https://sparc.iitkgp.ac.in/",
     "https://www.nasi.org.in/awards.htm",
     "https://insaindia.res.in/",
     "https://vit.ac.in/research/call-for-proposals" >>

(***************************************************************************)
(* Agency Resolver                                                         *)
(***************************************************************************)
AgencyFragments ==
  << <<"dst.gov.in", "DST">>, <<"dbtindia.gov.in", "DBT">>, <<"birac.nic.in", "BIRAC">>,
     <<"icmr.gov.in", "ICMR">>, <<"serb.gov.in", "SERB">>, <<"icssr.org", "ICSSR">>,
     <<"cefipra.org", "CEFIPRA">>, <<"igstc.org", "IGSTC">>, <<"tdb.gov.in", "TDB">>,
     <<"ugc.ac.in", "UGC">>, <<"sparc.iitkgp.ac.in", "SPARC">>, <<"nasi.org.in", "NASI">>,
     <<"insaindia.res.in", "INSA">>, <<"vit.ac.in", NULL>> >>

\* a resolver in which the last fragment found decides
getSourceAgencyLastFragment(sourceUrl) ==
  LET hits == {k \in 1..Len(AgencyFragments) : includes(sourceUrl, AgencyFragments[k][1])}
  IN IF hits = {} THEN "Unknown Agency" ELSE AgencyFragments[Max(hits)][2]

getSourceAgency(sourceUrl) ==
  LET hits == {k \in 1..Len(AgencyFragments) : includes(sourceUrl, AgencyFragments[k][1])}
  IN IF hits = {} THEN "Unknown Agency" ELSE AgencyFragments[Min(hits)][2]

(***************************************************************************)
(* Agency Attributor                                                       *)
(***************************************************************************)
AgencyCodes ==
  <<"DST", "DBT", "SERB", "ICMR", "BIRAC", "UGC", "CSIR", "ICSSR", "DRDO", "ISRO", "DAE", "AYUSH">>

\* /\|\s*(CODE)\s*\|/i
CellProbe(text, code) ==
  \E i \in 1..Len(text) :
    /\ Char(text, i) = "|"
    /\ LET a == i + 1 + RunLen(text, i + 1, IsSpace)
           b == a + Len(code)
       IN /\ MatchAtCI(text, toLowerCase(code), a)
          /\ Char(text, b + RunLen(text, b, IsSpace)) = "|"

\* the alternation (DST|DBT|...) at position a: index of the first alternative
\* that matches there, 0 when none does
CodeAt(text, a) ==
  Let({k \in 1..Len(AgencyCodes) : MatchAtCI(text, toLowerCase(AgencyCodes[k]), a)}, LAMBDA hits :
    IF hits = {} THEN 0 ELSE Min(hits))

\* /Agency:\s*(DST|...)/i : the code of the leftmost match, NULL when none
LabelProbe(text) ==
  Let([i \in 1..Len(text) |->
         IF MatchAtCI(text, "agency:", i) THEN CodeAt(text, i + 7 + RunLen(text, i + 7, IsSpace)) ELSE 0],
      LAMBDA code :
  Let({i \in 1..Len(text) : code[i] > 0}, LAMBDA hits :
    IF hits = {} THEN NULL ELSE AgencyCodes[code[Min(hits)]]))

\* /Department.*?:\s*(DST|...)/i : the code of the leftmost match (the lazy
\* .*? stops at the nearest colon that a code follows and never crosses a
\* line break), NULL when none
DeptProbe(text) ==
  LET NotNl(c) == c # "\n" /\ c # "\r"
  IN Let([j \in 1..Len(text) |->
            IF Char(text, j) = ":" THEN CodeAt(text, j + 1 + RunLen(text, j + 1, IsSpace)) ELSE 0],
         LAMBDA code :
     Let([i \in 1..Len(text) |->
            IF MatchAtCI(text, "department", i)
            THEN {j \in (i + 10)..(i + 10 + RunLen(text, i + 10, NotNl) - 1) : code[j] > 0}
            ELSE {}],
         LAMBDA colons :
     Let({i \in 1..Len(text) : colons[i] # {}}, LAMBDA hits :
       IF hits = {} THEN NULL ELSE AgencyCodes[code[Min(colons[Min(hits)])]])))

\* the clues looked for in the first URL of the content, in order
UrlClues ==
  << <<"dst.gov.in", "DST">>, <<"dbt", "DBT">>, <<"serb", "SERB">>, <<"icmr", "ICMR">>,
     <<"birac", "BIRAC">>, <<"ugc", "UGC">>, <<"csir", "CSIR">> >>

\* an attributor that looks at the title before the content
extractActualAgencyTitleFirst(content, title, sourceUrl) ==
  IF ~includes(sourceUrl, "vit.ac.in") THEN getSourceAgency(sourceUrl)
  ELSE
    Let({k \in 1..Len(AgencyCodes) : includesCI(title, AgencyCodes[k])}, LAMBDA inTitle :
    IF inTitle # {} THEN AgencyCodes[Min(inTitle)]
    ELSE Let({k \in 1..Len(AgencyCodes) : CellProbe(content, AgencyCodes[k])}, LAMBDA cells :
    IF cells # {} THEN AgencyCodes[Min(cells)]
    ELSE "Multiple Agencies"))

extractActualAgency(content, title, sourceUrl) ==
  IF ~includes(sourceUrl, "vit.ac.in") THEN getSourceAgency(sourceUrl)
  ELSE
    Let({k \in 1..Len(AgencyCodes) : CellProbe(content, AgencyCodes[k])}, LAMBDA cells :
    IF cells # {} THEN AgencyCodes[Min(cells)]
    ELSE Let(LabelProbe(content), LAMBDA labelled :
    IF labelled # NULL THEN labelled
    ELSE Let(DeptProbe(content), LAMBDA dept :
    IF dept # NULL THEN dept
    ELSE Let({k \in 1..Len(AgencyCodes) : includesCI(title, AgencyCodes[k])}, LAMBDA inTitle :
    IF inTitle # {} THEN AgencyCodes[Min(inTitle)]
    ELSE Let(Scan(UrlMatches(content), 1), LAMBDA urls :
    Let(IF urls = <<>> THEN "" ELSE SubSeq(content, urls[1][1], urls[1][2]), LAMBDA url :
    Let({k \in 1..Len(UrlClues) : includes(url, UrlClues[k][1])}, LAMBDA clues :
    IF urls # <<>> /\ clues # {} THEN UrlClues[Min(clues)][2]
    ELSE "Multiple Agencies")))))))

(***************************************************************************)
(* Title Classifier                                                        *)
(***************************************************************************)
keywords ==
  <<"call", "proposal", "funding", "grant", "scheme", "research",
    "phd", "postdoc", "scientist", "startup", "fellowship",
    "application", "submission", "deadline", "award", "competition",
    "opportunity", "invitation", "tender", "rop", "cfp", "program">>

MinTitleLen == 10

\* the classifier without the lower-casing of the title
isValidProposalCaseSensitive(title) ==
  /\ Len(title) >= MinTitleLen
  /\ \E k \in 1..Len(keywords) : includes(title, toLowerCase(keywords[k]))

isValidProposal(title) ==
  /\ Len(title) >= MinTitleLen
  /\ LET lower == toLowerCase(title)
     IN \E k \in 1..Len(keywords) : includes(lower, toLowerCase(keywords[k]))

(***************************************************************************)
(* Link Filter                                                             *)
(***************************************************************************)
\* new URL(u).hostname for an absolute URL (WHATWG): the special schemes
\* http: and https: take any run of slashes before the authority; user
\* info and port are dropped and the host is lower-cased.  NULL stands for
\* the TypeError new URL throws (no scheme, empty or forbidden host).
IsSlash(c) == c = "/" \/ c = "\\"

IsAuthorityChar(c) == ~(c \in {"/", "\\", "?", "#"})

IsForbiddenHostChar(c) == IsSpace(c) \/ c \in {"<", ">", "[", "]", "^", "|", "%", "@", ":"}

hostname(u) ==
  Let(toLowerCase(u), LAMBDA l :
  Let(IF startsWith(l, "https:") THEN 7 ELSE IF startsWith(l, "http:") THEN 6 ELSE 0, LAMBDA p :
  Let(p + RunLen(u, p, IsSlash), LAMBDA a :
  Let(SubSeq(l, a, a + RunLen(u, a, IsAuthorityChar) - 1), LAMBDA auth :
  Let({i \in 1..Len(auth) : Char(auth, i) = "@"}, LAMBDA ats :
  Let(IF ats = {} THEN auth ELSE SubSeq(auth, Max(ats) + 1, Len(auth)), LAMBDA hp :
  Let(indexOf(hp, ":", 1), LAMBDA c :
  Let(IF c = 0 THEN hp ELSE SubSeq(hp, 1, c - 1), LAMBDA host :
  Let(IF c = 0 THEN "" ELSE SubSeq(hp, c + 1, Len(hp)), LAMBDA port :
    IF p = 0 THEN NULL
    ELSE IF host = "" THEN NULL
    ELSE IF \E i \in 1..Len(host) : IsForbiddenHostChar(Char(host, i)) THEN NULL
    ELSE IF \E i \in 1..Len(port) : ~IsDigit(Char(port, i)) THEN NULL
    ELSE host)))))))))

skipPatterns ==
  <<"/contact", "/about", "/home", "/login", "/register", "/sitemap",
    ".jpg", ".png", ".gif", ".pdf", ".doc", ".docx", ".xls", ".xlsx",
    "mailto:", "tel:", "javascript:", "#",
    "facebook.com", "twitter.com", "linkedin.com", "instagram.com", "youtube.com">>

\* the filter without the rule on links of the source's own host
shouldSkipLinkAnyHost(link, srcUrl) ==
  IF link = "" THEN TRUE
  ELSE IF includes(link, "](") \/ includes(link, "![") \/ includes(link, ")**[") THEN TRUE
  ELSE IF ~startsWith(link, "http") \/ includes(link, "...") THEN TRUE
  ELSE \E k \in 1..Len(skipPatterns) : includes(toLowerCase(link), skipPatterns[k])

shouldSkipLink(link, srcUrl) ==
  IF link = "" THEN TRUE
  ELSE IF includes(link, "](") \/ includes(link, "![") \/ includes(link, ")**[") THEN TRUE
  ELSE IF ~startsWith(link, "http") \/ includes(link, "...") THEN TRUE
  ELSE IF /\ ~includes(srcUrl, "vit.ac.in")
          /\ Let(hostname(srcUrl), LAMBDA sourceDomain :
             Let(hostname(link), LAMBDA linkDomain :
               sourceDomain = NULL \/ linkDomain = NULL \/ sourceDomain = linkDomain)) THEN TRUE
  ELSE LET lower == toLowerCase(link)
       IN \E k \in 1..Len(skipPatterns) : includes(lower, skipPatterns[k])

(***************************************************************************)
(* Calendar arithmetic of the JavaScript Date object.  An instant is a     *)
(* number of minutes since 1970-01-01T00:00Z; NaN is the invalid Date.     *)
(***************************************************************************)
NaN == -1000000000

MinutesPerDay == 1440

\* Date.UTC(y, m - 1, d) in days
DaysFromCivil(y, m, d) ==
  LET yy == IF m <= 2 THEN y - 1 ELSE y
      era == yy \div 400
      yoe == yy - era * 400
      mp == IF m > 2 THEN m - 3 ELSE m + 9
      doy == (153 * mp + 2) \div 5 + d - 1
      doe == yoe * 365 + yoe \div 4 - yoe \div 100 + doy
  IN era * 146097 + doe - 719468

\* the UTC calendar date <<y, m, d>> of a day number
CivilFromDays(z) ==
  Let(z + 719468, LAMBDA zz :
  Let(zz \div 146097, LAMBDA era :
  Let(zz - era * 146097, LAMBDA doe :
  Let((doe - doe \div 1460 + doe \div 36524 - doe \div 146096) \div 365, LAMBDA yoe :
  Let(doe - (365 * yoe + yoe \div 4 - yoe \div 100), LAMBDA doy :
  Let((5 * doy + 2) \div 153, LAMBDA mp :
  Let(doy - (153 * mp + 2) \div 5 + 1, LAMBDA d :
  Let(IF mp < 10 THEN mp + 3 ELSE mp - 9, LAMBDA m :
    <<yoe + era * 400 + (IF m <= 2 THEN 1 ELSE 0), m, d>>))))))))

IsLeapYear(y) == (y % 4 = 0 /\ y % 100 # 0) \/ y % 400 = 0

DaysInMonth(y, m) ==
  IF m = 2 THEN (IF IsLeapYear(y) THEN 29 ELSE 28)
  ELSE IF m \in {4, 6, 9, 11} THEN 30 ELSE 31

\* the instant of midnight of y-m-d on a host whose clock is tz minutes
\* ahead of UTC (new Date(y, m - 1, d))
LocalMidnight(y, m, d, tz) == DaysFromCivil(y, m, d) * MinutesPerDay - tz

\* date.toISOString().split('T')[0]
toISODate(instant) ==
  Let(CivilFromDays(instant \div MinutesPerDay), LAMBDA c :
    Pad(c[1], 4) \o "-" \o Pad(c[2], 2) \o "-" \o Pad(c[3], 2))

\* at most k characters of a class, from position i
RunLenUpTo(s, i, Ok(_), k) ==
  LET ns == {n \in 0..k : \A j \in i..(i + n - 1) : j <= Len(s) /\ Ok(Char(s, j))}
  IN Max(ns)

MonthAbbr == <<"jan", "feb", "mar", "apr", "may", "jun", "jul", "aug", "sep", "oct", "nov", "dec">>

MonthWide ==
  <<"january", "february", "march", "april", "may", "june", "july", "august",
    "september", "october", "november", "december">>

\* the month a single letter stands for in the narrow width (first pattern
\* that matches among j f m a m j j a s o n d)
MonthNarrow == <<"j", "f", "m", "a", "m", "j", "j", "a", "s", "o", "n", "d">>

\* match.month at position i for a list of names: <<month, length>> of the
\* first name found there, <<0, 0>> when none
MonthAt(s, i, names) ==
  Let({k \in 1..12 : MatchAtCI(s, names[k], i)}, LAMBDA hits :
    IF hits = {} THEN <<0, 0>> ELSE <<Min(hits), Len(names[Min(hits)])>>)

\* the wide names are tried as one alternation, so at a position the
\* regular expression takes the first alternative that matches
MonthToken(s, i, tok) ==
  Let(MonthAt(s, i, MonthWide), LAMBDA wide :
    IF tok = "MMMM" /\ wide[1] > 0 THEN wide
    ELSE Let(MonthAt(s, i, MonthAbbr), LAMBDA abbr :
           IF abbr[1] > 0 THEN abbr ELSE MonthAt(s, i, MonthNarrow)))

(***************************************************************************)
(* Date Normalizer                                                         *)
(***************************************************************************)
formats ==
  << <<"dd", "/", "MM", "/", "yyyy">>, <<"dd", "-", "MM", "-", "yyyy">>,
     <<"MM", "/", "dd", "/", "yyyy">>, <<"yyyy", "-", "MM", "-", "dd">>,
     <<"dd", " ", "MMM", " ", "yyyy">>, <<"dd", " ", "MMMM", " ", "yyyy">>,
     <<"MMM", " ", "dd", ",", " ", "yyyy">>, <<"MMMM", " ", "dd", ",", " ", "yyyy">>,
     <<"dd", "/", "MM", "/", "yy">>, <<"dd", "-", "MM", "-", "yy">>,
     <<"MMM", " ", "yyyy">>, <<"MMMM", " ", "yyyy">> >>

MinYear == 2024

\* date-fns normalizeTwoDigitYear: the year of the century window that ends
\* 50 years after the reference year
normalizeTwoDigitYear(twoDigitYear, currentYear) ==
  LET rangeEnd == currentYear + 50
      rangeEndCentury == (rangeEnd \div 100) * 100
  IN twoDigitYear + rangeEndCentury - (IF twoDigitYear >= rangeEnd % 100 THEN 100 ELSE 0)

Unparsed == [ok |-> FALSE, y |-> 0, m |-> 0, d |-> 0]

\* date-fns parse, one token of the layout after the other from position
\* pos of t; acc holds the units read so far (day 1 when the layout has none)
RECURSIVE ParseTokens(_, _, _, _, _, _)
ParseTokens(t, toks, k, pos, acc, currentYear) ==
  IF k > Len(toks)
  THEN IF \E j \in pos..Len(t) : ~IsSpace(Char(t, j)) THEN Unparsed
       ELSE IF acc.y <= 0 \/ acc.m < 1 \/ acc.m > 12 THEN Unparsed
       ELSE IF acc.d < 1 \/ acc.d > DaysInMonth(acc.y, acc.m) THEN Unparsed
       ELSE acc
  ELSE
    Let(toks[k], LAMBDA tok :
    IF tok \in {"dd", "MM", "yy", "yyyy"}
    THEN Let(RunLenUpTo(t, pos, IsDigit, IF tok = "yyyy" THEN 4 ELSE 2), LAMBDA n :
         Let(DigitsValue(SubSeq(t, pos, pos + n - 1)), LAMBDA v :
           IF n = 0 THEN Unparsed
           ELSE ParseTokens(t, toks, k + 1, pos + n,
                  IF tok = "dd" THEN [acc EXCEPT !.d = v]
                  ELSE IF tok = "MM" THEN [acc EXCEPT !.m = v]
                  ELSE IF tok = "yy" THEN [acc EXCEPT !.y = normalizeTwoDigitYear(v, currentYear)]
                  ELSE [acc EXCEPT !.y = v],
                  currentYear)))
    ELSE IF tok \in {"MMM", "MMMM"}
    THEN Let(MonthToken(t, pos, tok), LAMBDA mon :
           IF mon[1] = 0 THEN Unparsed
           ELSE ParseTokens(t, toks, k + 1, pos + mon[2], [acc EXCEPT !.m = mon[1]], currentYear))
    ELSE IF MatchAt(t, tok, pos)
         THEN ParseTokens(t, toks, k + 1, pos + Len(tok), acc, currentYear)
         ELSE Unparsed)

\* parse(t, f, new Date()): the units of the local date, or Unparsed for an
\* Invalid Date
parse(t, f, currentYear) ==
  ParseTokens(t, f, 1, 1, [ok |-> TRUE, y |-> 0, m |-> 1, d |-> 1], currentYear)

\* s.trim().replace(/\s+/g, ' ')
RECURSIVE JoinChars(_, _, _, _)
JoinChars(u, pick, a, b) ==
  IF a > b THEN ""
  ELSE IF a = b THEN (IF IsSpace(Char(u, pick[a])) THEN " " ELSE Char(u, pick[a]))
  ELSE JoinChars(u, pick, a, (a + b) \div 2) \o JoinChars(u, pick, (a + b) \div 2 + 1, b)

CollapseSpaces(s) ==
  Let(trim(s), LAMBDA u :
  Let({i \in 1..Len(u) : ~(IsSpace(Char(u, i)) /\ i > 1 /\ IsSpace(Char(u, i - 1)))}, LAMBDA keep :
  Let([k \in 1..Cardinality(keep) |->
         CHOOSE i \in keep : Cardinality({j \in keep : j <= i}) = k], LAMBDA pick :
    JoinChars(u, pick, 1, Cardinality(keep)))))

RollingWords == <<"rolling", "ongoing", "continuous", "open", "throughout", "year">>

\* env is the host: tz, the minutes its clock is ahead of UTC, and year, the
\* year of new Date()
parseDate(s, env) ==
  IF s = "" THEN NULL
  ELSE
    Let(CollapseSpaces(s), LAMBDA t :
    IF \E k \in 1..Len(RollingWords) : includesCI(t, RollingWords[k]) THEN "Rolling Deadline"
    ELSE Let([k \in 1..Len(formats) |-> parse(t, formats[k], env.year)], LAMBDA parsed :
         Let({k \in 1..Len(formats) : parsed[k].ok /\ parsed[k].y >= MinYear}, LAMBDA ok :
           IF ok = {} THEN t
           ELSE Let(parsed[Min(ok)], LAMBDA d :
                  toISODate(LocalMidnight(d.y, d.m, d.d, env.tz))))))

(***************************************************************************)
(* Date-context extraction                                                 *)
(***************************************************************************)
IsDateSep(c) == c = "/" \/ c = "-"

IsColonOrSpace(c) == c = ":" \/ IsSpace(c)

\* (\d{1,2}[\/\-]\d{1,2}[\/\-]\d{2,4}) at position i: the last position of
\* the match, 0 when there is none
DateTokenEnd(s, i) ==
  IF ~IsDigit(Char(s, i)) THEN 0
  ELSE
    Let(RunLenUpTo(s, i, IsDigit, 3), LAMBDA n1 :
    Let(i + n1 + 1, LAMBDA j :
    Let(RunLenUpTo(s, j, IsDigit, 3), LAMBDA n2 :
    Let(j + n2 + 1, LAMBDA k :
    Let(RunLenUpTo(s, k, IsDigit, 4), LAMBDA n3 :
      IF /\ n1 \in {1, 2} /\ IsDateSep(Char(s, i + n1))
         /\ n2 \in {1, 2} /\ IsDateSep(Char(s, j + n2))
         /\ n3 >= 2
      THEN k + n3 - 1 ELSE 0)))))

\* /(\d{1,2}[\/\-]\d{1,2}[\/\-]\d{2,4})/g
BareDateMatches(s) ==
  Let([i \in 1..Len(s) |-> DateTokenEnd(s, i)], LAMBDA end :
    {<<i, end[i], i>> : i \in {j \in 1..Len(s) : end[j] > 0}})

\* /kw[:\s]*(\d{1,2}[\/\-]\d{1,2}[\/\-]\d{2,4})/gi for a keyword given as the
\* length it takes at a position (0 when it is not there); a match is
\* <<first, last, first of the captured date>>
KeywordDateMatches(s, KwLen(_)) ==
  Let([i \in 1..Len(s) |->
         Let(KwLen(i), LAMBDA n : IF n = 0 THEN 0 ELSE i + n + RunLen(s, i + n, IsColonOrSpace))],
      LAMBDA at :
  Let([i \in 1..Len(s) |-> IF at[i] = 0 THEN 0 ELSE DateTokenEnd(s, at[i])], LAMBDA end :
    {<<i, end[i], at[i]>> : i \in {j \in 1..Len(s) : end[j] > 0}}))

\* /last\s+date/i at position i: its length, 0 when it is not there
LastDateLen(s, i) ==
  Let(RunLen(s, i + 4, IsSpace), LAMBDA w :
    IF MatchAtCI(s, "last", i) /\ w > 0 /\ MatchAtCI(s, "date", i + 4 + w)
    THEN 8 + w ELSE 0)

\* /throughout\s+the\s+year/gi matches somewhere
ThroughoutTheYear(s) ==
  \E i \in 1..Len(s) :
    /\ MatchAtCI(s, "throughout", i)
    /\ Let(RunLen(s, i + 10, IsSpace), LAMBDA w1 :
       Let(RunLen(s, i + 13 + w1, IsSpace), LAMBDA w2 :
         /\ w1 > 0 /\ MatchAtCI(s, "the", i + 10 + w1)
         /\ w2 > 0 /\ MatchAtCI(s, "year", i + 13 + w1 + w2)))

\* /(\d{1,2}\s+\w+\s+\d{4})/g
DayMonthYearEnd(s, i) ==
  IF ~IsDigit(Char(s, i)) THEN 0
  ELSE
    Let(RunLenUpTo(s, i, IsDigit, 3), LAMBDA n1 :
    Let(RunLen(s, i + n1, IsSpace), LAMBDA w1 :
    Let(i + n1 + w1, LAMBDA a :
    Let(RunLen(s, a, IsWord), LAMBDA wd :
    Let(RunLen(s, a + wd, IsSpace), LAMBDA w2 :
    Let(a + wd + w2, LAMBDA b :
      IF n1 \in {1, 2} /\ w1 > 0 /\ wd > 0 /\ w2 > 0 /\ RunLenUpTo(s, b, IsDigit, 4) = 4
      THEN b + 3 ELSE 0))))))

DayMonthYearMatches(s) ==
  Let([i \in 1..Len(s) |-> DayMonthYearEnd(s, i)], LAMBDA end :
    {<<i, end[i], i>> : i \in {j \in 1..Len(s) : end[j] > 0}})

\* /(\w+\s+\d{1,2},?\s+\d{4})/g
MonthDayYearEnd(s, i) ==
  IF ~IsWord(Char(s, i)) THEN 0
  ELSE
    Let(RunLen(s, i, IsWord), LAMBDA wd :
    Let(RunLen(s, i + wd, IsSpace), LAMBDA w1 :
    Let(i + wd + w1, LAMBDA a :
    Let(RunLenUpTo(s, a, IsDigit, 3), LAMBDA n :
    Let(IF Char(s, a + n) = "," THEN 1 ELSE 0, LAMBDA c :
    Let(RunLen(s, a + n + c, IsSpace), LAMBDA w2 :
    Let(a + n + c + w2, LAMBDA b :
      IF wd > 0 /\ w1 > 0 /\ n \in {1, 2} /\ w2 > 0 /\ RunLenUpTo(s, b, IsDigit, 4) = 4
      THEN b + 3 ELSE 0)))))))

MonthDayYearMatches(s) ==
  Let([i \in 1..Len(s) |-> MonthDayYearEnd(s, i)], LAMBDA end :
    {<<i, end[i], i>> : i \in {j \in 1..Len(s) : end[j] > 0}})

\* new Date(text) for the texts extractDatesFromText passes: a date-only ISO
\* text is midnight UTC; any other text goes to the engine's legacy parser,
\* which reads "12 March 2025" and "March 12, 2025" (a word counts as a
\* month by its first three letters, a day up to 31 rolls into the next
\* month) as midnight local time and yields NaN otherwise
IsISODate(t) ==
  /\ Len(t) = 10 /\ Char(t, 5) = "-" /\ Char(t, 8) = "-"
  /\ \A i \in {1, 2, 3, 4, 6, 7, 9, 10} : IsDigit(Char(t, i))

\* new Date(y, m - 1, d) of the legacy parser
LegacyInstant(y, m, d, tz) ==
  IF d < 1 \/ d > 31 THEN NaN
  ELSE (DaysFromCivil(y, m, 1) + d - 1) * MinutesPerDay - tz

\* day first: d{1,2} " " word " " yyyy; <<>> when the text is not of this shape
LegacyDayFirst(t, tz) ==
  Let(RunLenUpTo(t, 1, IsDigit, 3), LAMBDA n1 :
  Let(RunLen(t, n1 + 2, IsWord), LAMBDA aw :
  Let(MonthAt(t, n1 + 2, MonthAbbr)[1], LAMBDA amon :
  Let(n1 + aw + 3, LAMBDA ay :
    IF /\ n1 \in {1, 2} /\ Char(t, n1 + 1) = " " /\ aw >= 3 /\ amon > 0
       /\ Char(t, n1 + 2 + aw) = " "
       /\ RunLen(t, ay, IsDigit) = 4 /\ ay + 3 = Len(t)
    THEN <<LegacyInstant(DigitsValue(SubSeq(t, ay, ay + 3)), amon, DigitsValue(SubSeq(t, 1, n1)), tz)>>
    ELSE <<>>))))

\* month first: word " " d{1,2} ","? " " yyyy
LegacyMonthFirst(t, tz) ==
  Let(RunLen(t, 1, IsWord), LAMBDA wd :
  Let(MonthAt(t, 1, MonthAbbr)[1], LAMBDA bmon :
  Let(RunLenUpTo(t, wd + 2, IsDigit, 3), LAMBDA bn :
  Let(IF Char(t, wd + 2 + bn) = "," THEN 1 ELSE 0, LAMBDA bc :
  Let(wd + bn + bc + 3, LAMBDA by :
    IF /\ wd >= 3 /\ bmon > 0 /\ Char(t, wd + 1) = " " /\ bn \in {1, 2}
       /\ Char(t, wd + 2 + bn + bc) = " "
       /\ RunLen(t, by, IsDigit) = 4 /\ by + 3 = Len(t)
    THEN LegacyInstant(DigitsValue(SubSeq(t, by, by + 3)), bmon, DigitsValue(SubSeq(t, wd + 2, wd + 1 + bn)), tz)
    ELSE NaN)))))

LegacyDate(t, tz) ==
  Let(LegacyDayFirst(t, tz), LAMBDA a : IF a # <<>> THEN a[1] ELSE LegacyMonthFirst(t, tz))

NewDate(t, tz) ==
  IF IsISODate(t)
  THEN Let(DigitsValue(SubSeq(t, 1, 4)), LAMBDA y :
       Let(DigitsValue(SubSeq(t, 6, 7)), LAMBDA m :
       Let(DigitsValue(SubSeq(t, 9, 10)), LAMBDA d :
         IF m < 1 \/ m > 12 \/ d < 1 \/ d > DaysInMonth(y, m) THEN NaN
         ELSE DaysFromCivil(y, m, d) * MinutesPerDay)))
  ELSE LegacyDate(t, tz)

\* the matches of the eight patterns, each pattern scanned as its /g loop
\* does; a match is <<first, last, first of match[1] || match[0]>>
KeywordLen(text, w, i) == IF MatchAtCI(text, w, i) THEN Len(w) ELSE 0

DateMatches(text) ==
  Let(<< KeywordDateMatches(text, LAMBDA i : KeywordLen(text, "deadline", i)),
         KeywordDateMatches(text, LAMBDA i : KeywordLen(text, "due", i)),
         KeywordDateMatches(text, LAMBDA i : KeywordLen(text, "submit", i)),
         KeywordDateMatches(text, LAMBDA i : LastDateLen(text, i)),
         BareDateMatches(text), DayMonthYearMatches(text), MonthDayYearMatches(text) >>, LAMBDA all :
  Let([k \in 1..Len(all) |-> Scan(all[k], 1)], LAMBDA scans :
    UNION {{scans[k][n] : n \in 1..Len(scans[k])} : k \in 1..Len(all)}))

\* the instant a date match contributes, NaN when it is dropped
MatchInstant(text, m, env) ==
  Let(SubSeq(text, m[3], m[2]), LAMBDA dateStr :
  Let(parseDate(dateStr, env), LAMBDA parsed :
    IF parsed = dateStr THEN NaN ELSE NewDate(parsed, env.tz)))

extractDatesFromText(text, proposalTitle, env) ==
  Let(DateMatches(text), LAMBDA ms :
    IF \/ ThroughoutTheYear(text)
       \/ \E m \in ms : includes(toLowerCase(SubSeq(text, m[1], m[2])), "throughout")
    THEN [start |-> NULL, end |-> "Rolling Deadline"]
    ELSE Let({MatchInstant(text, m, env) : m \in ms} \ {NaN}, LAMBDA dates :
           [start |-> IF Cardinality(dates) > 1 THEN toISODate(Min(dates)) ELSE NULL,
            end |-> IF Cardinality(dates) > 0 THEN toISODate(Max(dates)) ELSE NULL]))

(***************************************************************************)
(* Extraction Engine                                                       *)
(***************************************************************************)
\* the template literal `${title}|${link}`
MapKey(title, link) == title \o "|" \o link

\* A Map is the sequence of its entries in insertion order.
MapHas(map, key) == \E n \in 1..Len(map) : map[n].key = key

\* proposals.set(key, value) without the test: the value of a present key
\* is replaced
SetAlways(map, key, value) ==
  IF MapHas(map, key)
  THEN [n \in 1..Len(map) |-> IF map[n].key = key THEN [key |-> key, value |-> value] ELSE map[n]]
  ELSE Append(map, [key |-> key, value |-> value])

\* if (!proposals.has(key)) proposals.set(key, value)
SetIfAbsent(map, key, value) ==
  IF MapHas(map, key) THEN map ELSE Append(map, [key |-> key, value |-> value])

\* Array.from(proposals.values())
MapValues(map) == [n \in 1..Len(map) |-> map[n].value]

Record(title, agency, dates, link, now) ==
  [title |-> title, agency |-> agency,
   startDate |-> IF dates.start = NULL THEN "Not specified" ELSE dates.start,
   endDate |-> IF dates.end = NULL THEN "Not specified" ELSE dates.end,
   link |-> link, extractedAt |-> now]

IsLineBreak(c) == c = "\n" \/ c = "\r"

\* /\[(.+?)\]\((https?:\/\/[^\s)]+)\)/g : for every "[" the preferred match
\* <<first, last, position of "]">>; the lazy title ends at the nearest "]("
\* that a URL and ")" follow
UrlEndAt(md, j) ==
  Let(IF MatchAt(md, "https://", j) THEN 8 ELSE IF MatchAt(md, "http://", j) THEN 7 ELSE 0, LAMBDA pre :
  Let(RunLen(md, j + pre, IsUrlChar), LAMBDA run :
    IF pre > 0 /\ run > 0 /\ Char(md, j + pre + run) = ")" THEN j + pre + run - 1 ELSE 0))

LinkMatches(md) ==
  Let([j \in 1..Len(md) |-> IF MatchAt(md, "](", j) THEN UrlEndAt(md, j + 2) ELSE 0], LAMBDA urlEnd :
  Let([i \in 1..Len(md) |->
         IF Char(md, i) = "["
         THEN {j \in (i + 2)..(i + RunLen(md, i + 1, LAMBDA c : ~IsLineBreak(c))) : urlEnd[j] > 0}
         ELSE {}], LAMBDA closes :
    {<<i, urlEnd[Min(closes[i])] + 1, Min(closes[i])>> : i \in {k \in 1..Len(md) : closes[k] # {}}}))

\* Pattern 1, one match of linkRegex: the body of the while loop
LinkStep(map, m, md, srcUrl, env, now) ==
  Let(SubSeq(md, m[1] + 1, m[3] - 1), LAMBDA title :
  Let(SubSeq(md, m[3] + 2, m[2] - 1), LAMBDA link :
    IF isValidProposal(title) /\ ~shouldSkipLink(link, srcUrl)
    THEN SetIfAbsent(map, MapKey(trim(title), link),
           Record(trim(title), extractActualAgency(md, title, srcUrl),
                  extractDatesFromText(md, title, env), link, now))
    ELSE map))

\* Pattern 1: the inline links, merged into the map in match order
RECURSIVE StrategyA(_, _, _, _, _, _, _)
StrategyA(map, ms, n, md, srcUrl, env, now) ==
  IF n > Len(ms) THEN map
  ELSE StrategyA(LinkStep(map, ms[n], md, srcUrl, env, now), ms, n + 1, md, srcUrl, env, now)

\* md.split('\n')
SplitLines(md) ==
  Let({i \in 1..Len(md) : Char(md, i) = "\n"}, LAMBDA nl :
  Let([k \in 0..(Cardinality(nl) + 1) |->
         IF k = 0 THEN 0
         ELSE IF k = Cardinality(nl) + 1 THEN Len(md) + 1
         ELSE CHOOSE i \in nl : Cardinality({j \in nl : j <= i}) = k], LAMBDA cut :
    [k \in 1..(Cardinality(nl) + 1) |-> SubSeq(md, cut[k - 1] + 1, cut[k] - 1)]))

\* lines.join(' ')
RECURSIVE JoinSpace(_, _, _)
JoinSpace(lines, a, b) ==
  IF a > b THEN ""
  ELSE IF a = b THEN lines[a]
  ELSE JoinSpace(lines, a, (a + b) \div 2) \o " " \o JoinSpace(lines, (a + b) \div 2 + 1, b)

LinesBefore == 3

SliceEnd == 4

\* the loop over the URLs of one title line: the first URL that passes the
\* filter and whose key is not in the map yet is set, and ends the loop
RECURSIVE FirstNewUrl(_, _, _, _, _, _, _, _)
FirstNewUrl(map, urls, n, line, contextText, srcUrl, env, now) ==
  IF n > Len(urls) THEN map
  ELSE
    Let(urls[n], LAMBDA url :
    Let(MapKey(trim(line), url), LAMBDA key :
      IF ~shouldSkipLink(url, srcUrl) /\ ~MapHas(map, key)
      THEN SetIfAbsent(map, key,
             Record(trim(line), extractActualAgency(contextText, line, srcUrl),
                    extractDatesFromText(contextText, line, env), url, now))
      ELSE FirstNewUrl(map, urls, n + 1, line, contextText, srcUrl, env, now)))

\* Pattern 2 with a slice that ends one line later
LineStepWide(map, lines, n, srcUrl, env, now) ==
  Let(trim(lines[n]), LAMBDA line :
    IF isValidProposal(line)
    THEN Let(JoinSpace(lines, Max({1, n - LinesBefore}), Min({Len(lines), n + SliceEnd})),
             LAMBDA contextText :
           FirstNewUrl(map, AllUrls(contextText), 1, line, contextText, srcUrl, env, now))
    ELSE map)

\* Pattern 2, one line: a line that is a title by itself, with the URLs of
\* the lines around it
LineStep(map, lines, n, srcUrl, env, now) ==
  Let(trim(lines[n]), LAMBDA line :
    IF isValidProposal(line)
    THEN \* lines.slice(Math.max(0, i-3), Math.min(lines.length, i+4)), i 0-based
         Let(JoinSpace(lines, Max({1, n - LinesBefore}), Min({Len(lines), n - 1 + SliceEnd})),
             LAMBDA contextText :
           FirstNewUrl(map, AllUrls(contextText), 1, line, contextText, srcUrl, env, now))
    ELSE map)

\* Pattern 2: the loop over the lines
RECURSIVE StrategyB(_, _, _, _, _, _)
StrategyB(map, lines, n, srcUrl, env, now) ==
  IF n > Len(lines) THEN map
  ELSE StrategyB(LineStep(map, lines, n, srcUrl, env, now), lines, n + 1, srcUrl, env, now)

\* /\|([^|]+)\|([^|]*)\|([^|]*)\|([^|]*)\|([^|]*)/g : a match starts at a
\* pipe that a non-empty cell and four more pipes follow, and runs to the
\* character before the sixth pipe (or to the end); a match is
\* <<first, last, index of its first pipe among the pipes of md>>
TableMatches(md) ==
  Let({i \in 1..Len(md) : Char(md, i) = "|"}, LAMBDA pipes :
  Let(Cardinality(pipes), LAMBDA np :
  Let([k \in 1..np |-> CHOOSE i \in pipes : Cardinality({j \in pipes : j <= i}) = k], LAMBDA pos :
    {<<pos[a], IF a + 5 <= np THEN pos[a + 5] - 1 ELSE Len(md), a>> :
       a \in {k \in 1..(np - 4) : pos[k + 1] > pos[k] + 1}})))

\* the five cells of a match, trimmed
TableCells(md, m) ==
  Let({i \in 1..Len(md) : Char(md, i) = "|" /\ i >= m[1] /\ i <= m[2]}, LAMBDA pipes :
  Let([k \in 1..5 |-> CHOOSE i \in pipes : Cardinality({j \in pipes : j <= i}) = k], LAMBDA pos :
    [k \in 1..5 |-> trim(SubSeq(md, pos[k] + 1, IF k < 5 THEN pos[k + 1] - 1 ELSE m[2]))]))

\* array.filter(Boolean) on strings
RECURSIVE FilterNonEmpty(_)
FilterNonEmpty(a) ==
  IF a = <<>> THEN <<>>
  ELSE (IF Head(a) = "" THEN <<>> ELSE <<Head(a)>>) \o FilterNonEmpty(Tail(a))

\* array.find(pred): the first element satisfying it, NULL for undefined
Find(a, Pred(_)) ==
  Let({k \in 1..Len(a) : Pred(a[k])}, LAMBDA hits :
    IF hits = {} THEN NULL ELSE a[Min(hits)])

\* col.match(/^(DST|DBT|...)$/i)
IsAgencyCode(col) == \E k \in 1..Len(AgencyCodes) : toUpperCase(col) = AgencyCodes[k]

\* Pattern 3, one match of tableRegex: a row of a pipe-delimited table
HasUrl(col) == includes(col, "http://") \/ includes(col, "https://")

RowStep(map, m, md, srcUrl, env, now) ==
  Let(FilterNonEmpty(TableCells(md, m)), LAMBDA columns :
  Let(Find(columns, isValidProposal), LAMBDA titleCol :
  Let(Find(columns, HasUrl), LAMBDA urlCol :
    IF titleCol # NULL /\ urlCol # NULL /\ ~shouldSkipLink(urlCol, srcUrl)
    THEN Let(JoinSpace(columns, 1, Len(columns)), LAMBDA allText :
         Let(Find(columns, IsAgencyCode), LAMBDA agencyCol :
           SetIfAbsent(map, MapKey(trim(titleCol), trim(urlCol)),
             Record(trim(titleCol),
                    IF includes(srcUrl, "vit.ac.in") /\ agencyCol # NULL
                    THEN toUpperCase(agencyCol)
                    ELSE extractActualAgency(allText, titleCol, srcUrl),
                    extractDatesFromText(allText, titleCol, env), trim(urlCol), now))))
    ELSE map)))

\* Pattern 3: the loop over the rows
RECURSIVE StrategyC(_, _, _, _, _, _, _)
StrategyC(map, ms, n, md, srcUrl, env, now) ==
  IF n > Len(ms) THEN map
  ELSE StrategyC(RowStep(map, ms[n], md, srcUrl, env, now), ms, n + 1, md, srcUrl, env, now)

\* the map after each of the three strategies has run
AfterA(md, srcUrl, env, now) ==
  StrategyA(<<>>, Scan(LinkMatches(md), 1), 1, md, srcUrl, env, now)

AfterB(md, srcUrl, env, now) ==
  StrategyB(AfterA(md, srcUrl, env, now), SplitLines(md), 1, srcUrl, env, now)

AfterC(md, srcUrl, env, now) ==
  StrategyC(AfterB(md, srcUrl, env, now), Scan(TableMatches(md), 1), 1, md, srcUrl, env, now)

extractProposalsFromMarkdown(md, srcUrl, env, now) == MapValues(AfterC(md, srcUrl, env, now))

(***************************************************************************)
(* The proposals table                                                     *)
(***************************************************************************)
\* UNIQUE(title, link): the row that conflicts with a record, if any
Conflicts(rows, title, link) == \E n \in 1..Len(rows) : rows[n].title = title /\ rows[n].link = link

\* the insert on a table without the UNIQUE(title, link) constraint
InsertProposalUnconstrained(rows, id, proposal) ==
  Append(rows, [id |-> id, title |-> proposal.title, agency |-> proposal.agency,
                from_date |-> proposal.startDate, deadline |-> proposal.endDate,
                link |-> proposal.link])

\* INSERT INTO proposals ... ON CONFLICT (title, link) DO NOTHING RETURNING id
\* : the table afterwards
InsertProposal(rows, id, proposal) ==
  IF Conflicts(rows, proposal.title, proposal.link) THEN rows
  ELSE Append(rows, [id |-> id, title |-> proposal.title, agency |-> proposal.agency,
                     from_date |-> proposal.startDate, deadline |-> proposal.endDate,
                     link |-> proposal.link])

\* new Set(result.rows.map(row => `${row.title}|${row.link}`))
ExistingKeys(rows) == {MapKey(rows[n].title, rows[n].link) : n \in 1..Len(rows)}

(***************************************************************************)
(* Batch Orchestrator: the pure steps of main()                            *)
(***************************************************************************)
\* array.filter(pred), in order
RECURSIVE Filter(_, _)
Filter(a, keep) ==
  IF a = <<>> THEN <<>>
  ELSE Filter(SubSeq(a, 1, Len(a) - 1), keep) \o (IF keep[Len(a)] THEN <<a[Len(a)]>> ELSE <<>>)

\* the proposals of a page whose key is not in existingProposals
NewOf(found, existing) ==
  Filter(found, [n \in 1..Len(found) |-> ~(MapKey(found[n].title, found[n].link) \in existing)])

\* a filter that keeps the last record of every title and link
DedupKeepLast(all) ==
  Filter(all, [n \in 1..Len(all) |->
                 ~\E k \in (n + 1)..Len(all) : all[k].title = all[n].title /\ all[k].link = all[n].link])

\* allProposals.filter((p, index, array) => index === array.findIndex(same title and link))
Dedup(all) ==
  Filter(all, [n \in 1..Len(all) |->
                 ~\E k \in 1..(n - 1) : all[k].title = all[n].title /\ all[k].link = all[n].link])

\* the comparator with the two NaN answers exchanged
CompareDeadlineNaNFirst(a, b, tz) ==
  Let(NewDate(a.endDate, tz), LAMBDA dateA :
  Let(NewDate(b.endDate, tz), LAMBDA dateB :
    IF dateA = NaN /\ dateB = NaN THEN 0
    ELSE IF dateA = NaN THEN -1
    ELSE IF dateB = NaN THEN 1
    ELSE dateA - dateB))

\* the comparator of the final sort: negative, zero or positive
CompareDeadline(a, b, tz) ==
  Let(NewDate(a.endDate, tz), LAMBDA dateA :
  Let(NewDate(b.endDate, tz), LAMBDA dateB :
    IF dateA = NaN /\ dateB = NaN THEN 0
    ELSE IF dateA = NaN THEN 1
    ELSE IF dateB = NaN THEN -1
    ELSE dateA - dateB))

\* Array.prototype.sort with the comparator: a stable sort, here by
\* insertion from the left
InsertSorted(sorted, x, tz) ==
  Let(Min({n \in 0..Len(sorted) : \A k \in (n + 1)..Len(sorted) : CompareDeadline(sorted[k], x, tz) > 0}),
      LAMBDA n :
    SubSeq(sorted, 1, n) \o <<x>> \o SubSeq(sorted, n + 1, Len(sorted)))

RECURSIVE SortByDeadline(_, _)
SortByDeadline(a, tz) ==
  IF a = <<>> THEN <<>>
  ELSE InsertSorted(SortByDeadline(SubSeq(a, 1, Len(a) - 1), tz), a[Len(a)], tz)

(***************************************************************************)
(* The environment: hosts, pages the sources may serve, what the fetch     *)
(* collaborator and the store may answer                                   *)
(***************************************************************************)
\* minutes the host clock is ahead of UTC: UTC and India Standard Time
TzOffsets == {0, 330}

CurrentYear == 2026

Envs == {[tz |-> z, year |-> CurrentYear] : z \in TzOffsets}

\* the scenario page: a link inside a paragraph that mentions a deadline
PageSerb ==
  "Apply to [SERB Core Research Grant Call 2025](https://serb.gov.in/crg/apply) now. Deadline: 31/12/2025"

\* one link whose URL contains a pipe
PageLeft == "[Grant call](http://x.org/p|http://y.org/q)"

\* one link whose title contains a pipe
PageRight == "[Grant call|http://x.org/p](http://y.org/q)"

\* both links on one page
PageBoth == PageLeft \o "\n" \o PageRight

\* a link and a table row for the same opportunity, and a cell of another agency
PageTable ==
  "[Quantum grant call](http://q.org/a)\n| Quantum grant call | SERB | x | 1/2/2025 | http://q.org/a\n| DBT |"

\* a title line twice, then a line with two URLs
PageTwoUrls == "Research grant call\nResearch grant call\nhttp://a.org/1 http://b.org/2"

\* a title line, and a URL on the third line after it
PageThirdAfter == "Research grant call\n\n\nhttp://a.org/1"

\* a title line, and a URL on the fourth line after it
PageFourthAfter == "Research grant call\n\n\n\nhttp://a.org/1"

\* a link, and one day written twice: as digits and, with two spaces, in words
PageSameDay == "[Grant call](http://x.org/c) 3/3/2025 March  3 2025"

\* a link whose text is padded with spaces
PagePadded == "[ Grant 25 ](http://x.org/c)"

Pages ==
  <<PageSerb, PageLeft, PageRight, PageBoth, PageTable, PageTwoUrls, PageThirdAfter,
    PageFourthAfter, PageSameDay, PagePadded>>

\* the pages each configured source may serve, as <<page, source>> by index
\* into Pages and researchUrls; the other sources only fail or serve nothing
ContentPairs == {<<2, 1>>, <<2, 2>>}

Web == [k \in 1..Len(researchUrls) |-> {x[1] : x \in {y \in ContentPairs : y[2] = k}}]

\* a truthy markdown value that is not text: md.split throws on it
Malformed == "<not a string>"

\* what one call of app.scrapeUrl may do
FetchOutcomes == {"content", "empty", "malformed", "unsuccessful", "throw", "throw401"}

\* the engine's output for every page a source may serve, on every host,
\* with extractedAt 0
Extracted ==
  [x \in ContentPairs, z \in TzOffsets |->
     extractProposalsFromMarkdown(Pages[x[1]], researchUrls[x[2]], [tz |-> z, year |-> CurrentYear], 0)]

\* extractedAt: new Date().toISOString() of the pass
Stamp(records, now) == [n \in 1..Len(records) |-> [records[n] EXCEPT !.extractedAt = now]]

\* the proposals another run of the scraper may insert meanwhile
OtherProposals ==
  { [title |-> "Grant call|http://x.org/p", agency |-> "DBT", startDate |-> "Not specified",
     endDate |-> "Not specified", link |-> "http://y.org/q", extractedAt |-> 0] }

(***************************************************************************)
(* State                                                                   *)
(***************************************************************************)
VARIABLES
  hostEnv,                \* the host: time zone offset and current year
  store,              \* the rows of the proposals table, in insertion order
  pc,                 \* where main() is
  urlIdx,                  \* index in researchUrls of the source being processed
  attempt,            \* attempt of scrapeWithRetry
  backoffs,           \* backoff pauses taken for the current source
  response,           \* what scrapeWithRetry returned
  existingProposals,  \* keys read from the table at the start of the run
  allProposals,       \* records accumulated from all sources
  newProposals,       \* records whose key was not in existingProposals
  uniqueProposals,    \* the final deduplicated, sorted result
  insertIdx,          \* next element of newProposals batchInsertProposals inserts
  insertedCount,      \* rows inserted by the batch so far
  notified,           \* the records passed to sendNotification
  outcome,            \* how the run ended: none, completed, exit1
  fetched,            \* sources for which scrapeUrl was called in this run
  logged,             \* the kinds of console.error and console.warn lines of this run
  page,               \* the arguments of extractProposalsFromMarkdown: md and srcUrl
  stage,              \* the loop of the pass that is running: A, B, C, then done
  cursor,             \* the next match or line of that loop
  proposals,          \* the Map of the pass
  callArgs,           \* the function a caller applies and its arguments
  callResult,         \* what the calls of it returned, in order
  circuitBreakerOpen, \* the serving layer: the breaker refuses requests
  consecutiveFailures,\* failed connection tests since the last passed one
  timeoutElapsed,     \* Date.now() - lastFailureTime > CIRCUIT_BREAKER_TIMEOUT
  dbUp,               \* the database answers connection attempts and queries
  checkedOut,         \* clients of the pool that are not released
  orphans,            \* pool.connect() calls still pending after their race was lost
  requests            \* the requests in the middleware or in a route handler

vars ==
  <<hostEnv, store, pc, urlIdx, attempt, backoffs, response, existingProposals,
    allProposals, newProposals, uniqueProposals, insertIdx, insertedCount, notified,
    outcome, fetched, logged, page, stage, cursor,
    proposals, callArgs, callResult, circuitBreakerOpen, consecutiveFailures,
    timeoutElapsed, dbUp, checkedOut, orphans, requests>>

runVars ==
  <<pc, urlIdx, attempt, backoffs, response, existingProposals, allProposals, newProposals,
    uniqueProposals, insertIdx, insertedCount, notified, outcome, fetched, logged>>

passVars == <<page, stage, cursor, proposals, callArgs, callResult>>

serveVars ==
  <<circuitBreakerOpen, consecutiveFailures, timeoutElapsed, dbUp, checkedOut, orphans,
    requests>>

\* the requests the server works on at one time
Requests == {1, 2}

\* no request on the slot; answer is the last response sent on it and test
\* the outcome of the last connection test made for it
NoRequest(answer, test) == [at |-> "idle", attempt |-> 0, answer |-> answer, test |-> test]

\* the server after start-up: breaker closed, lastFailureTime = 0, pool empty
ServerAtRest ==
  /\ circuitBreakerOpen = FALSE
  /\ consecutiveFailures = 0
  /\ timeoutElapsed = TRUE
  /\ dbUp = TRUE
  /\ checkedOut = 0
  /\ orphans = 0
  /\ requests = [r \in Requests |-> NoRequest("none", "none")]

BATCH_SIZE == 2

\* scrapeWithRetry(url, 1) in main
MainMaxRetries == 1

NoResponse == [success |-> FALSE, markdown |-> NULL, error |-> "none"]

NoPage == [md |-> "", srcUrl |-> ""]

NoCall == [fn |-> "none"]

Clock == urlIdx

Init ==
  /\ hostEnv \in Envs
  /\ store = <<>>
  /\ pc = "idle"
  /\ urlIdx = 0
  /\ attempt = 0
  /\ backoffs = 0
  /\ response = NoResponse
  /\ existingProposals = {}
  /\ allProposals = <<>>
  /\ newProposals = <<>>
  /\ uniqueProposals = <<>>
  /\ insertIdx = 0
  /\ insertedCount = 0
  /\ notified = <<>>
  /\ outcome = "none"
  /\ fetched = {}
  /\ logged = {}
  /\ page = NoPage
  /\ stage = "done"
  /\ cursor = 0
  /\ proposals = <<>>
  /\ callArgs = NoCall
  /\ callResult = <<>>
  /\ ServerAtRest

(***************************************************************************)
(* main()                                                                  *)
(***************************************************************************)
\* main() is started: testFirecrawlApiKey; an invalid key exits the process
TestApiKey(valid) ==
  /\ pc \in {"idle", "done", "exited"}
  /\ pc' = IF valid THEN "setup" ELSE "exited"
  /\ outcome' = IF valid THEN "none" ELSE "exit1"
  /\ urlIdx' = 0
  /\ attempt' = 0
  /\ backoffs' = 0
  /\ response' = NoResponse
  /\ existingProposals' = {}
  /\ allProposals' = <<>>
  /\ newProposals' = <<>>
  /\ uniqueProposals' = <<>>
  /\ insertIdx' = 0
  /\ insertedCount' = 0
  /\ notified' = <<>>
  /\ fetched' = {}
  /\ logged' = {}
  /\ UNCHANGED <<hostEnv, store, passVars, serveVars>>

\* setupDatabase: CREATE TABLE IF NOT EXISTS; a failure exits the process
SetupDatabase(reachable) ==
  /\ pc = "setup"
  /\ pc' = IF reachable THEN "load" ELSE "exited"
  /\ outcome' = IF reachable THEN outcome ELSE "exit1"
  /\ UNCHANGED <<hostEnv, store, urlIdx, attempt, backoffs, response, existingProposals,
                 allProposals, newProposals, uniqueProposals, insertIdx, insertedCount,
                 notified, fetched, logged, passVars, serveVars>>

\* getExistingProposals: a failed SELECT is caught and answers the empty set
getExistingProposals(reachable) ==
  /\ pc = "load"
  /\ existingProposals' = IF reachable THEN ExistingKeys(store) ELSE {}
  /\ logged' = IF reachable THEN logged ELSE logged \cup {"read"}
  /\ pc' = "fetch"
  /\ urlIdx' = 1
  /\ attempt' = 1
  /\ UNCHANGED <<hostEnv, store, backoffs, response, allProposals, newProposals,
                 uniqueProposals, insertIdx, insertedCount, notified, outcome, fetched,
                 passVars, serveVars>>

\* one pass of the loop of scrapeWithRetry(url, maxRetries): the call of
\* app.scrapeUrl and what follows it up to the return or the next call
scrapeWithRetry(o, q, maxRetries) ==
  /\ pc = "fetch"
  /\ o = "content" => q \in Web[urlIdx]
  /\ o # "content" => q = 0
  /\ fetched' = fetched \cup {urlIdx}
  /\ logged' = IF o = "throw401" THEN logged \cup {"auth"} ELSE logged
  /\ IF o \in {"content", "empty", "malformed"}
     THEN /\ response' = [success |-> TRUE, error |-> "none",
                          markdown |-> IF o = "content" THEN Pages[q]
                                       ELSE IF o = "malformed" THEN Malformed ELSE NULL]
          /\ pc' = "respond"
          /\ UNCHANGED <<attempt, backoffs>>
     ELSE IF o = "throw401"
     THEN /\ response' = [success |-> FALSE, markdown |-> NULL, error |-> "auth"]
          /\ pc' = "respond"
          /\ UNCHANGED <<attempt, backoffs>>
     ELSE IF attempt < maxRetries
     THEN \* await new Promise(resolve => setTimeout(resolve, 5000)), next attempt
          /\ attempt' = attempt + 1
          /\ backoffs' = backoffs + 1
          /\ UNCHANGED <<response, pc>>
     ELSE /\ response' = [success |-> FALSE, markdown |-> NULL,
                          error |-> IF o = "throw" THEN "transient" ELSE "exhausted"]
          /\ pc' = "respond"
          /\ UNCHANGED <<attempt, backoffs>>
  /\ UNCHANGED <<hostEnv, store, urlIdx, existingProposals, allProposals, newProposals,
                 uniqueProposals, insertIdx, insertedCount, notified, outcome, passVars, serveVars>>

\* the end of one iteration of for (const url of batch): the next source, the
\* pause before the next batch, or the end of the loops
LastOfBatch(k) == k % BATCH_SIZE = 0 \/ k = Len(researchUrls)

BatchStart(k) == ((k - 1) \div BATCH_SIZE) * BATCH_SIZE

NextSource ==
  IF ~LastOfBatch(urlIdx)
  THEN pc' = "fetch" /\ urlIdx' = urlIdx + 1 /\ attempt' = 1 /\ backoffs' = 0
  ELSE IF BatchStart(urlIdx) + BATCH_SIZE < Len(researchUrls)
  THEN pc' = "batch_pause" /\ UNCHANGED <<urlIdx, attempt, backoffs>>
  ELSE pc' = "finish" /\ UNCHANGED <<urlIdx, attempt, backoffs>>

\* break in place of continue: the loops over the sources end
BreakBatch == pc' = "finish" /\ UNCHANGED <<urlIdx, attempt, backoffs>>

\* continue, and the catch of the loop body: on to the next source
ContinueBatch == NextSource

\* main's handling of the response: a failure, an absent content and an
\* exception of the extraction all go on to the next source
HandleResponse ==
  /\ pc = "respond"
  /\ IF response.success /\ response.markdown # NULL /\ response.markdown # Malformed
     THEN /\ Let(Stamp(Extracted[<<CHOOSE n \in 1..Len(Pages) : Pages[n] = response.markdown, urlIdx>>,
                                  hostEnv.tz], Clock),
                 LAMBDA foundProposals :
                   /\ newProposals' = newProposals \o NewOf(foundProposals, existingProposals)
                   /\ allProposals' = allProposals \o foundProposals)
          /\ pc' = "pause"
          /\ UNCHANGED <<urlIdx, attempt, backoffs, logged>>
     ELSE /\ ContinueBatch
          /\ logged' = IF response.error = "auth" THEN logged ELSE logged \cup {"skipped"}
          /\ UNCHANGED <<newProposals, allProposals>>
  /\ response' = NoResponse
  /\ UNCHANGED <<hostEnv, store, existingProposals, uniqueProposals, insertIdx, insertedCount,
                 notified, outcome, fetched, passVars, serveVars>>

\* the rate-limit pause after a source that gave content
RatePause ==
  /\ pc = "pause"
  /\ NextSource
  /\ UNCHANGED <<hostEnv, store, response, existingProposals, allProposals,
                 newProposals, uniqueProposals, insertIdx, insertedCount, notified, outcome,
                 fetched, logged, passVars, serveVars>>

\* a pause after which the batch that has ended is started again
BatchPauseRepeat ==
  /\ pc = "batch_pause"
  /\ pc' = "fetch"
  /\ urlIdx' = BatchStart(urlIdx) + 1
  /\ attempt' = 1
  /\ backoffs' = 0
  /\ UNCHANGED <<hostEnv, store, response, existingProposals, allProposals,
                 newProposals, uniqueProposals, insertIdx, insertedCount, notified, outcome,
                 fetched, logged, passVars, serveVars>>

\* the longer pause between two batches
BatchPause ==
  /\ pc = "batch_pause"
  /\ pc' = "fetch"
  /\ urlIdx' = urlIdx + 1
  /\ attempt' = 1
  /\ backoffs' = 0
  /\ UNCHANGED <<hostEnv, store, response, existingProposals, allProposals,
                 newProposals, uniqueProposals, insertIdx, insertedCount, notified, outcome,
                 fetched, logged, passVars, serveVars>>

\* after the loops: deduplicate, sort, and start the insert of the delta
Finalize ==
  /\ pc = "finish"
  /\ uniqueProposals' = SortByDeadline(Dedup(allProposals), hostEnv.tz)
  /\ IF Len(newProposals) > 0
     THEN pc' = "insert" /\ insertIdx' = 1
     ELSE pc' = "closing" /\ UNCHANGED insertIdx
  /\ UNCHANGED <<hostEnv, store, urlIdx, attempt, backoffs, response, existingProposals,
                 allProposals, newProposals, insertedCount, notified, outcome, fetched,
                 logged, passVars, serveVars>>

\* one query of batchInsertProposals; after the last one, or after a query
\* that throws (caught, the batch answers 0), main notifies and goes on
batchInsertProposals(queryOk) ==
  /\ pc = "insert"
  /\ LET proposal == newProposals[insertIdx]
         inserted == ~Conflicts(store, proposal.title, proposal.link)
         count == IF inserted THEN insertedCount + 1 ELSE insertedCount
     IN IF ~queryOk
        THEN /\ insertedCount' = 0
             /\ notified' = <<>>
             /\ logged' = logged \cup {"insert"}
             /\ pc' = "closing"
             /\ UNCHANGED <<store, insertIdx>>
        ELSE /\ store' = InsertProposal(store, Len(store) + 1, proposal)
             /\ insertedCount' = count
             /\ IF insertIdx < Len(newProposals)
                THEN /\ insertIdx' = insertIdx + 1
                     /\ UNCHANGED <<pc, notified>>
                ELSE /\ notified' = IF count > 0 THEN SubSeq(newProposals, 1, count) ELSE <<>>
                     /\ pc' = "closing"
                     /\ UNCHANGED insertIdx
             /\ UNCHANGED logged
  /\ UNCHANGED <<hostEnv, urlIdx, attempt, backoffs, response, existingProposals,
                 allProposals, newProposals, uniqueProposals, outcome, fetched, passVars, serveVars>>

\* "SCRAPING COMPLETED SUCCESSFULLY", then finally: pool.end()
Complete ==
  /\ pc = "closing"
  /\ pc' = "done"
  /\ outcome' = "completed"
  /\ UNCHANGED <<hostEnv, store, urlIdx, attempt, backoffs, response, existingProposals,
                 allProposals, newProposals, uniqueProposals, insertIdx, insertedCount,
                 notified, fetched, logged, passVars, serveVars>>

(***************************************************************************)
(* Other clients of the table                                              *)
(***************************************************************************)
\* the insert statement of another run of the scraper
OtherInsert(proposal) ==
  /\ store' = InsertProposal(store, Len(store) + 1, proposal)
  /\ store' # store
  /\ UNCHANGED <<hostEnv, runVars, passVars, serveVars>>

Next ==
  \/ \E valid \in BOOLEAN : TestApiKey(valid)
  \/ \E reachable \in BOOLEAN : SetupDatabase(reachable)
  \/ \E reachable \in BOOLEAN : getExistingProposals(reachable)
  \/ \E o \in FetchOutcomes, q \in 0..Len(Pages) : scrapeWithRetry(o, q, MainMaxRetries)
  \/ HandleResponse
  \/ RatePause
  \/ BatchPause
  \/ Finalize
  \/ \E queryOk \in BOOLEAN : batchInsertProposals(queryOk)
  \/ Complete
  \/ \E proposal \in OtherProposals : OtherInsert(proposal)

Spec == Init /\ [][Next]_vars

\* the steps of main() after the key test
MainStep ==
  \/ \E reachable \in BOOLEAN : SetupDatabase(reachable)
  \/ \E reachable \in BOOLEAN : getExistingProposals(reachable)
  \/ \E o \in FetchOutcomes, q \in 0..Len(Pages) : scrapeWithRetry(o, q, MainMaxRetries)
  \/ HandleResponse
  \/ RatePause
  \/ BatchPause
  \/ Finalize
  \/ \E queryOk \in BOOLEAN : batchInsertProposals(queryOk)
  \/ Complete

\* the runs of the scraper alone, one after the other
NextFair ==
  \/ \E valid \in BOOLEAN : TestApiKey(valid)
  \/ MainStep

\* main() does not stay at an await for ever: control leaves every position
\* between the start of the run and its end
Positions ==
  {"setup", "load", "fetch", "respond", "pause", "batch_pause", "finish", "insert", "closing"}

AwaitSettles == pc \in Positions /\ pc' \in (Positions \cup {"done", "exited"}) \ {pc}

SpecFair == Init /\ [][NextFair]_vars /\ WF_pc(AwaitSettles)

(***************************************************************************)
(* One pass of extractProposalsFromMarkdown, loop iteration by iteration   *)
(***************************************************************************)
\* the sources the pass is run for: a single-agency source (DST), the source
\* of the scenario (SERB) and the aggregator (VIT)
ExtractSources == {1, 5, 14}

InitExtract ==
  /\ hostEnv \in Envs
  /\ page \in {[md |-> Pages[p], srcUrl |-> researchUrls[k]] :
                 p \in 1..Len(Pages), k \in ExtractSources}
  /\ stage = "A"
  /\ cursor = 1
  /\ proposals = <<>>
  /\ store = <<>>
  /\ pc = "idle"
  /\ urlIdx = 0
  /\ attempt = 0
  /\ backoffs = 0
  /\ response = NoResponse
  /\ existingProposals = {}
  /\ allProposals = <<>>
  /\ newProposals = <<>>
  /\ uniqueProposals = <<>>
  /\ insertIdx = 0
  /\ insertedCount = 0
  /\ notified = <<>>
  /\ outcome = "none"
  /\ fetched = {}
  /\ logged = {}
  /\ callArgs = NoCall
  /\ callResult = <<>>
  /\ ServerAtRest

\* while ((match = linkRegex.exec(md))) { ... }
ExtractLink ==
  /\ stage = "A"
  /\ LET ms == Scan(LinkMatches(page.md), 1)
     IN IF cursor <= Len(ms)
        THEN /\ proposals' = LinkStep(proposals, ms[cursor], page.md, page.srcUrl, hostEnv, 0)
             /\ cursor' = cursor + 1
             /\ UNCHANGED stage
        ELSE /\ stage' = "B"
             /\ cursor' = 1
             /\ UNCHANGED proposals
  /\ UNCHANGED <<hostEnv, store, runVars, page, callArgs, callResult, serveVars>>

\* for (let i = 0; i < lines.length; i++) { ... }
ExtractLine ==
  /\ stage = "B"
  /\ LET lines == SplitLines(page.md)
     IN IF cursor <= Len(lines)
        THEN /\ proposals' = LineStep(proposals, lines, cursor, page.srcUrl, hostEnv, 0)
             /\ cursor' = cursor + 1
             /\ UNCHANGED stage
        ELSE /\ stage' = "C"
             /\ cursor' = 1
             /\ UNCHANGED proposals
  /\ UNCHANGED <<hostEnv, store, runVars, page, callArgs, callResult, serveVars>>

\* while ((match = tableRegex.exec(md))) { ... }, then the return
ExtractRow ==
  /\ stage = "C"
  /\ LET ms == Scan(TableMatches(page.md), 1)
     IN IF cursor <= Len(ms)
        THEN /\ proposals' = RowStep(proposals, ms[cursor], page.md, page.srcUrl, hostEnv, 0)
             /\ cursor' = cursor + 1
             /\ UNCHANGED stage
        ELSE /\ stage' = "done"
             /\ cursor' = 0
             /\ UNCHANGED proposals
  /\ UNCHANGED <<hostEnv, store, runVars, page, callArgs, callResult, serveVars>>

NextExtract == ExtractLink \/ ExtractLine \/ ExtractRow

SpecExtract == InitExtract /\ [][NextExtract]_vars

(***************************************************************************)
(* The end of main() on the records a run may have accumulated            *)
(***************************************************************************)
MaxSortLen == 3

SortEndDates == <<"2025-06-01", "Not specified", "2025-01-15", "Rolling Deadline">>

SortRecord(t, e) ==
  [title |-> t, agency |-> "DST", startDate |-> "Not specified", endDate |-> SortEndDates[e],
   link |-> "http://x.org/" \o Pad(e, 1), extractedAt |-> 0]

\* records with pairwise different (title, link): one for every end date,
\* and a second one with the end date of another
SortRecords ==
  {SortRecord("Grant call A", e) : e \in 1..Len(SortEndDates)} \cup {SortRecord("Grant call B", 3)}

RECURSIVE InsertAll(_, _)
InsertAll(rows, records) ==
  IF records = {} THEN rows
  ELSE Let(CHOOSE r \in records : TRUE, LAMBDA r :
         InsertAll(InsertProposal(rows, Len(rows) + 1, r), records \ {r}))

\* main() after the loops of a run that found every record already stored
InitSort ==
  /\ hostEnv \in Envs
  /\ allProposals \in UNION {[1..n -> SortRecords] : n \in 0..MaxSortLen}
  /\ store = InsertAll(<<>>, SortRecords)
  /\ existingProposals = ExistingKeys(store)
  /\ newProposals = <<>>
  /\ pc = "finish"
  /\ urlIdx = Len(researchUrls)
  /\ attempt = 1
  /\ backoffs = 0
  /\ response = NoResponse
  /\ uniqueProposals = <<>>
  /\ insertIdx = 0
  /\ insertedCount = 0
  /\ notified = <<>>
  /\ outcome = "none"
  /\ fetched = 1..Len(researchUrls)
  /\ logged = {}
  /\ page = NoPage
  /\ stage = "done"
  /\ cursor = 0
  /\ proposals = <<>>
  /\ callArgs = NoCall
  /\ callResult = <<>>
  /\ ServerAtRest

NextSort == Finalize \/ Complete

SpecSort == InitSort /\ [][NextSort]_vars

(***************************************************************************)
(* The engine run twice on one page by one host                            *)
(***************************************************************************)
MaxYearsPassed == 1

\* a link followed by a deadline whose year is written with two digits
PageShortYear == "[Grant call 2076](http://x.org/c) Deadline: 1/2/76"

RepeatPages == <<PageSerb, PageTable, PageShortYear>>

InitRepeat ==
  /\ hostEnv \in Envs
  /\ page \in {[md |-> RepeatPages[p], srcUrl |-> researchUrls[k]] :
                 p \in 1..Len(RepeatPages), k \in ExtractSources}
  /\ callArgs = [fn |-> "extractProposalsFromMarkdown"]
  /\ callResult = <<>>
  /\ ServerAtRest
  /\ stage = "done"
  /\ cursor = 0
  /\ proposals = <<>>
  /\ store = <<>>
  /\ pc = "idle"
  /\ urlIdx = 0
  /\ attempt = 0
  /\ backoffs = 0
  /\ response = NoResponse
  /\ existingProposals = {}
  /\ allProposals = <<>>
  /\ newProposals = <<>>
  /\ uniqueProposals = <<>>
  /\ insertIdx = 0
  /\ insertedCount = 0
  /\ notified = <<>>
  /\ outcome = "none"
  /\ fetched = {}
  /\ logged = {}

\* extractProposalsFromMarkdown(md, srcUrl), once more; the pass reads the
\* clock for extractedAt and, in parseDate, for the reference date
RunPass ==
  /\ callArgs.fn = "extractProposalsFromMarkdown"
  /\ Len(callResult) < 2
  /\ callResult' = Append(callResult,
       extractProposalsFromMarkdown(page.md, page.srcUrl, hostEnv, Len(callResult)))
  /\ UNCHANGED <<hostEnv, store, runVars, page, stage, cursor, proposals, callArgs, serveVars>>

\* the year of new Date() changes between two passes
NewYear ==
  /\ callArgs.fn = "extractProposalsFromMarkdown"
  /\ Len(callResult) < 2
  /\ hostEnv.year < CurrentYear + MaxYearsPassed
  /\ hostEnv' = [hostEnv EXCEPT !.year = @ + 1]
  /\ UNCHANGED <<store, runVars, passVars, serveVars>>

NextRepeat == RunPass \/ NewYear

SpecRepeat == InitRepeat /\ [][NextRepeat]_vars

(***************************************************************************)
(* The helpers of the engine, each called once by a caller                 *)
(***************************************************************************)
\* what callers pass: the function and its arguments
CallInputs ==
  {[fn |-> "parseDate", s |-> Pad(d, 2) \o "/" \o Pad(m, 2) \o "/" \o Pad(y, 4)] :
     d \in {1, 15, 29, 31}, m \in {1, 2, 3, 12}, y \in {1999, 2023, 2024, 2025}}
  \cup {[fn |-> "parseDate", s |-> t] :
          t \in {" 15/03/1999 ", "15-03-2025", "2023-12-31", "2025-03-15", "03/15/2025",
                 "1/2/76", "Mar 2025", "March 5, 2025", "rolling", "Open all year", "soon"}}
  \cup {[fn |-> "shouldSkipLink", link |-> l, srcUrl |-> researchUrls[k]] :
          l \in {"https://nasi.org.in/call-2025", "https://www.nasi.org.in/grants",
                 "https://dst.gov.in/other", "https://www.dst.gov.in/scheme",
                 "https://DST.gov.in:443/call", "https://vit.ac.in/research/funding",
                 "https://example.org/grant", "https://example.org/contact",
                 "http://x.org:port/call", "http://exa|mple.org/call", "https:///",
                 "http://example.com/a](http://example.com/b)", "www.example.org/grant",
                 "https://example.org/gra..."},
          k \in {1, 12, 14}}
  \cup {[fn |-> "isValidProposal", title |-> t] :
          t \in {"Grant call", "Grant cal", "PHD FELLOWSHIP 2025", "Summer program 2025",
                 "Summer Programme", "European Union visit", "Contact us today",
                 "Home page of the institute", "CFP", "CFP 2025 is open",
                 "International Conference 2025", "Tender", ""}}
  \cup {[fn |-> "getSourceAgency", sourceUrl |-> researchUrls[k]] : k \in 1..Len(researchUrls)}
  \cup {[fn |-> "getSourceAgency", sourceUrl |-> u] :
          u \in {"https://example.org/funding", "https://serb.gov.in/go?to=https://dst.gov.in/",
                 "https://vit.ac.in/research/icmr.gov.in", "https://www.UGC.ac.in/", ""}}
  \cup {[fn |-> "extractActualAgency", content |-> c, title |-> t, sourceUrl |-> u] :
          c \in {"| Quantum grant | dbt | x |", "Agency: SERB\nsee https://dst.gov.in/a",
                 "Department of Science: ICMR", "Agency: unknown | none",
                 "details at https://www.icmr.gov.in/x and https://dst.gov.in/y",
                 "see https://example.org/a", "no clue"},
          t \in {"DST call for proposals", "Quantum grant call"},
          u \in {researchUrls[1], researchUrls[14], "https://example.org/funding"}}
  \cup {[fn |-> "extractDatesFromText", text |-> t] :
          t \in {"Deadline: 1/2/2025", "Opens 10/01/2025, deadline: 15/03/2025",
                 "15/03/2025 and 1/2/2025 and 10/01/2025", "no dates here",
                 "Deadline: 15/03/1999", "12 March 2025 to 5 April 2025",
                 "Accepted throughout the year; last date: 1/2/2025",
                 "Funded throughout 12 2025, deadline: 1/2/2025"}}

InitCalls ==
  /\ hostEnv \in Envs
  /\ callArgs \in CallInputs
  /\ callResult = <<>>
  /\ ServerAtRest
  /\ page = NoPage
  /\ stage = "done"
  /\ cursor = 0
  /\ proposals = <<>>
  /\ store = <<>>
  /\ pc = "idle"
  /\ urlIdx = 0
  /\ attempt = 0
  /\ backoffs = 0
  /\ response = NoResponse
  /\ existingProposals = {}
  /\ allProposals = <<>>
  /\ newProposals = <<>>
  /\ uniqueProposals = <<>>
  /\ insertIdx = 0
  /\ insertedCount = 0
  /\ notified = <<>>
  /\ outcome = "none"
  /\ fetched = {}
  /\ logged = {}

\* parseDate(s)
ParseDateCall ==
  /\ callArgs.fn = "parseDate"
  /\ callResult = <<>>
  /\ callResult' = <<parseDate(callArgs.s, hostEnv)>>
  /\ UNCHANGED <<hostEnv, store, runVars, page, stage, cursor, proposals, callArgs, serveVars>>

\* shouldSkipLink(link, srcUrl)
ShouldSkipLinkCall ==
  /\ callArgs.fn = "shouldSkipLink"
  /\ callResult = <<>>
  /\ callResult' = <<shouldSkipLink(callArgs.link, callArgs.srcUrl)>>
  /\ UNCHANGED <<hostEnv, store, runVars, page, stage, cursor, proposals, callArgs, serveVars>>

\* isValidProposal(title)
IsValidProposalCall ==
  /\ callArgs.fn = "isValidProposal"
  /\ callResult = <<>>
  /\ callResult' = <<isValidProposal(callArgs.title)>>
  /\ UNCHANGED <<hostEnv, store, runVars, page, stage, cursor, proposals, callArgs, serveVars>>

\* getSourceAgency(sourceUrl)
GetSourceAgencyCall ==
  /\ callArgs.fn = "getSourceAgency"
  /\ callResult = <<>>
  /\ callResult' = <<getSourceAgency(callArgs.sourceUrl)>>
  /\ UNCHANGED <<hostEnv, store, runVars, page, stage, cursor, proposals, callArgs, serveVars>>

\* extractActualAgency(content, title, sourceUrl)
ExtractActualAgencyCall ==
  /\ callArgs.fn = "extractActualAgency"
  /\ callResult = <<>>
  /\ callResult' = <<extractActualAgency(callArgs.content, callArgs.title, callArgs.sourceUrl)>>
  /\ UNCHANGED <<hostEnv, store, runVars, page, stage, cursor, proposals, callArgs, serveVars>>

\* extractDatesFromText(text, title)
ExtractDatesFromTextCall ==
  /\ callArgs.fn = "extractDatesFromText"
  /\ callResult = <<>>
  /\ callResult' = <<extractDatesFromText(callArgs.text, "", hostEnv)>>
  /\ UNCHANGED <<hostEnv, store, runVars, page, stage, cursor, proposals, callArgs, serveVars>>

NextCalls ==
  \/ ParseDateCall
  \/ ShouldSkipLinkCall
  \/ IsValidProposalCall
  \/ GetSourceAgencyCall
  \/ ExtractActualAgencyCall
  \/ ExtractDatesFromTextCall

SpecCalls == InitCalls /\ [][NextCalls]_vars

(***************************************************************************)
(* Properties                                                              *)
(***************************************************************************)
\* the end-to-end scenario: the SERB page fetched from the SERB source
ScenarioPage == [md |-> PageSerb, srcUrl |-> researchUrls[5]]

\* C1: the pass over the scenario page yields no record, at any point of
\* it: the only link of the page is on the host of the source, which is not
\* the aggregator, so every strategy's candidate is rejected by the filter
ScenarioYieldsNoRecord == page = ScenarioPage => proposals = <<>>

\* the pass over the scenario page has returned
ScenarioPassDone == page = ScenarioPage /\ stage = "done" /\ MapValues(proposals) = <<>>

\* C1 as stated: the pass over the scenario page returns exactly one
\* record, with the title, agency, end date and link of the scenario
ScenarioYieldsOneRecord ==
  page = ScenarioPage /\ stage = "done" =>
    /\ Len(proposals) = 1
    /\ proposals[1].value.title = "SERB Core Research Grant Call 2025"
    /\ proposals[1].value.agency = "SERB"
    /\ proposals[1].value.endDate = "2025-12-31"
    /\ proposals[1].value.link = "https://serb.gov.in/crg/apply"

\* C2 as stated, for the delta: a record is taken as already known only if
\* a row of the table has its title and its link
KnownOnlyIfStored ==
  \A n \in 1..Len(allProposals) :
    MapKey(allProposals[n].title, allProposals[n].link) \in existingProposals
      => Conflicts(store, allProposals[n].title, allProposals[n].link)

OnePerKey ==
  \A m, n \in 1..Len(proposals) :
    proposals[m].value.title = proposals[n].value.title /\ proposals[m].value.link = proposals[n].value.link
      => m = n

KeepsEntries ==
  /\ Len(proposals') >= Len(proposals)
  /\ \A n \in 1..Len(proposals) : proposals'[n] = proposals[n]

\* C3: during a pass the collection never holds two records with the same
\* (title, link), and no iteration of strategy A, B or C, which run in this
\* order, changes or removes an entry made before it
FirstWriterWins == []OnePerKey /\ [][KeepsEntries]_vars

\* the pass over the table page of the aggregator has returned: the record
\* of the inline link is kept with its agency, although the table row with
\* the same title and link names another agency
FirstRecordKept ==
  /\ stage = "done"
  /\ page = [md |-> PageTable, srcUrl |-> researchUrls[14]]
  /\ Len(proposals) >= 1
  /\ proposals[1].key = "Quantum grant call|http://q.org/a"
  /\ proposals[1].value.agency = "DBT"
  /\ RowStep(<<>>, Scan(TableMatches(page.md), 1)[1], page.md, page.srcUrl, hostEnv, 0)[1].value.agency = "SERB"

\* C4 as stated: once the loops are over, the delta holds the records of
\* the deduplicated result whose key was not read from the table, each
\* (title, link) once
DeltaHoldsEachKeyOnce ==
  pc \in {"insert", "closing"} =>
    /\ \A m, n \in 1..Len(newProposals) :
         newProposals[m].title = newProposals[n].title /\ newProposals[m].link = newProposals[n].link
           => m = n
    /\ {newProposals[n] : n \in 1..Len(newProposals)}
         = {r \in {uniqueProposals[n] : n \in 1..Len(uniqueProposals)} :
              ~(MapKey(r.title, r.link) \in existingProposals)}

StoreUnique ==
  \A m, n \in 1..Len(store) :
    store[m].title = store[n].title /\ store[m].link = store[n].link => m = n

RowsKept ==
  /\ Len(store') >= Len(store)
  /\ \A n \in 1..Len(store) : store'[n] = store[n]

\* C5: the table never holds two rows with the same (title, link), and no
\* step of a run or of another client changes or removes a row
StoreAppendOnly == []StoreUnique /\ [][RowsKept]_vars

\* a batch ended without an error although one of its inserts met a row
\* with the same (title, link): fewer rows were inserted than records given
ConflictWasNoOp ==
  /\ pc = "closing"
  /\ ~("insert" \in logged)
  /\ Len(newProposals) > 0
  /\ insertedCount < Len(newProposals)
  /\ StoreUnique

\* C6 as stated: after an authentication failure no source is fetched and
\* the run does not complete
AuthFailureAborts ==
  "auth" \in logged => pc \in {"respond", "exited"} /\ outcome # "completed"

Usable(r) == r.success /\ r.markdown # NULL /\ r.markdown # Malformed

AllSourcesFetched ==
  pc \in {"finish", "insert", "closing", "done"} => fetched = 1..Len(researchUrls)

SkipKeepsRecords ==
  pc = "respond" /\ pc' # "respond" /\ ~Usable(response) /\ response.error # "auth" =>
    /\ allProposals' = allProposals
    /\ newProposals' = newProposals
    /\ pc' \in {"fetch", "batch_pause", "finish"}

\* C7: a source that failed for another reason than authentication, gave
\* no content, or made the extraction throw adds nothing to the records of
\* the run and removes none, the loop goes on, and when the loops are over
\* every configured source has been fetched
PartialFailureNonFatal == []AllSourcesFetched /\ [][SkipKeepsRecords]_vars

\* the loops are over: the two sources that serve a page gave their four
\* records and a later source was skipped
SkippedAfterRecords ==
  /\ pc = "finish"
  /\ "skipped" \in logged
  /\ Len(allProposals) = 4
  /\ fetched = 1..Len(researchUrls)

\* C8 as stated: main gives up a source on a transient failure only after
\* a retry that followed the backoff pause
TransientFailureRetried ==
  pc = "respond" /\ response.error \in {"transient", "exhausted"} => backoffs >= 1

\* C9 as stated: a run in which the read of the existing keys or an insert
\* failed does not end as completed
StoreFailureFailsRun ==
  outcome = "completed" => ~("read" \in logged) /\ ~("insert" \in logged)

\* C10: the final result holds the deduplicated records, those with a
\* parseable end date first and in non-decreasing order of it, and two
\* records that compare equal in the order they had before the sort
SortedByDeadline ==
  pc \in {"closing", "done"} =>
    LET before == Dedup(allProposals)
        at(r) == CHOOSE n \in 1..Len(before) : before[n] = r
        date(n) == NewDate(uniqueProposals[n].endDate, hostEnv.tz)
    IN /\ Len(uniqueProposals) = Len(before)
       /\ {uniqueProposals[n] : n \in 1..Len(uniqueProposals)} = {before[n] : n \in 1..Len(before)}
       /\ \A m, n \in 1..Len(uniqueProposals) :
            m < n =>
              /\ date(m) = NaN => date(n) = NaN
              /\ date(m) # NaN /\ date(n) # NaN => date(m) <= date(n)
              /\ date(m) = date(n) => at(uniqueProposals[m]) < at(uniqueProposals[n])

\* the ordering example: 2025-06-01, Not specified, 2025-01-15 come out as
\* 2025-01-15, 2025-06-01, Not specified
SortExampleDone ==
  /\ pc = "closing"
  /\ [n \in 1..Len(allProposals) |-> allProposals[n].endDate] = <<"2025-06-01", "Not specified", "2025-01-15">>
  /\ [n \in 1..Len(uniqueProposals) |-> uniqueProposals[n].endDate]
       = <<"2025-01-15", "2025-06-01", "Not specified">>

\* C11: after the final deduplication no two records of the result have the
\* same title and link, every title and link of the accumulated records is
\* still there, and the record kept for it is the first one accumulated
GlobalDedupKeepsFirst ==
  pc \in {"insert", "closing", "done"} =>
    /\ \A m, n \in 1..Len(uniqueProposals) :
         uniqueProposals[m].title = uniqueProposals[n].title
           /\ uniqueProposals[m].link = uniqueProposals[n].link => m = n
    /\ \A n \in 1..Len(allProposals) : \E m \in 1..Len(uniqueProposals) :
         uniqueProposals[m].title = allProposals[n].title
           /\ uniqueProposals[m].link = allProposals[n].link
    /\ \A m \in 1..Len(uniqueProposals) : \E n \in 1..Len(allProposals) :
         /\ allProposals[n] = uniqueProposals[m]
         /\ \A k \in 1..(n - 1) :
              ~(allProposals[k].title = allProposals[n].title
                  /\ allProposals[k].link = allProposals[n].link)

\* two sources served the same page: the records of the second one are dropped
SecondSourceDropped ==
  /\ pc = "closing"
  /\ Len(allProposals) = 4
  /\ Len(uniqueProposals) = 2
  /\ \E n \in 1..Len(allProposals) : allProposals[n].agency = "DBT"
  /\ \A m \in 1..Len(uniqueProposals) : uniqueProposals[m].agency = "DST"

\* C12 as stated: two passes over the same page and source give the same
\* records up to extractedAt, whenever they run
PassIsRepeatable ==
  Len(callResult) = 2 /\ callArgs.fn = "extractProposalsFromMarkdown" =>
    Stamp(callResult[1], 0) = Stamp(callResult[2], 0)

\* yyyy-MM-dd as text
IsoText(y, m, d) == Pad(y, 4) \o "-" \o Pad(m, 2) \o "-" \o Pad(d, 2)

\* C13 as stated: a dd/MM/yyyy text of a valid date of 2024 or later comes
\* back as the ISO text of the same year, month and day on every host
SlashDateKeepsItsDay ==
  callArgs.fn = "parseDate" /\ callResult # <<>> =>
    \A d \in 1..31, m \in 1..12, y \in {2024, 2025} :
      d <= DaysInMonth(y, m) /\ callArgs.s = Pad(d, 2) \o "/" \o Pad(m, 2) \o "/" \o Pad(y, 4)
        => callResult[1] = IsoText(y, m, d)

\* C14 as stated: an ISO date that parseDate makes of a text is never of a
\* year below 2024, and a text outside the continuous vocabulary that no
\* layout turns into an accepted date comes back trimmed
NoYearBelowMinimum ==
  callArgs.fn = "parseDate" /\ callResult # <<>> =>
    /\ IsISODate(callResult[1]) /\ callResult[1] # trim(callArgs.s)
         => DigitsValue(SubSeq(callResult[1], 1, 4)) >= 2024
    /\ (/\ \A k \in 1..Len(RollingWords) : ~includesCI(callArgs.s, RollingWords[k])
        /\ \A k \in 1..Len(formats) :
             Let(parse(trim(callArgs.s), formats[k], hostEnv.year), LAMBDA parsed :
               ~(parsed.ok /\ parsed.y >= 2024)))
         => callResult[1] = trim(callArgs.s)

\* a host name without a leading "www."
WithoutWww(h) == IF startsWith(h, "www.") THEN SubSeq(h, 5, Len(h)) ELSE h

\* no rule of the filter other than the one on the source's own site applies
OtherRulesPass(link) ==
  /\ startsWith(link, "http") /\ ~includes(link, "...")
  /\ ~includes(link, "](") /\ ~includes(link, "![") /\ ~includes(link, ")**[")
  /\ \A k \in 1..Len(skipPatterns) : ~includes(toLowerCase(link), skipPatterns[k])

\* C15 as stated: for a source that is not the aggregator a link of the
\* source's own site is rejected, also when the two host names differ only
\* by "www."; for the aggregator such a link is accepted unless another
\* rule rejects it
OwnSiteRejected ==
  callArgs.fn = "shouldSkipLink" /\ callResult # <<>> =>
    Let(hostname(callArgs.srcUrl), LAMBDA sourceDomain :
    Let(hostname(callArgs.link), LAMBDA linkDomain :
      sourceDomain # NULL /\ linkDomain # NULL /\ WithoutWww(sourceDomain) = WithoutWww(linkDomain)
        => IF includes(callArgs.srcUrl, "vit.ac.in")
           THEN OtherRulesPass(callArgs.link) => callResult[1] = FALSE
           ELSE callResult[1] = TRUE))

\* C16 as stated: a link that does not parse as a URL is rejected, whatever
\* the source
MalformedRejected ==
  callArgs.fn = "shouldSkipLink" /\ callResult # <<>> =>
    (hostname(callArgs.link) = NULL => callResult[1] = TRUE)

\* the terms the sentence lists, with the two abbreviations
ListedTerms ==
  {"call", "proposal", "funding", "grant", "scheme", "research", "phd", "postdoc",
   "scientist", "startup", "fellowship", "application", "submission", "deadline", "award",
   "competition", "opportunity", "invitation", "tender", "rop", "cfp"}

HasTermOf(title, terms) == \E w \in terms : includesCI(title, w)

\* C17: a text is accepted exactly when it has at least 10 characters and
\* contains, in any case, a listed term, an abbreviation or "program"
AcceptsListedOrProgram ==
  callArgs.fn = "isValidProposal" /\ callResult # <<>> =>
    (callResult[1] <=>
       Len(callArgs.title) >= 10 /\ HasTermOf(callArgs.title, ListedTerms \cup {"program"}))

\* a title whose only term is "program" was classified, and accepted
ProgramTitleAccepted ==
  /\ callArgs.fn = "isValidProposal"
  /\ callArgs.title = "Summer program 2025"
  /\ ~HasTermOf(callArgs.title, ListedTerms)
  /\ callResult = <<TRUE>>

\* C17 as stated: a text is accepted exactly when it has at least 10
\* characters and contains a listed term or an abbreviation
AcceptsListedOnly ==
  callArgs.fn = "isValidProposal" /\ callResult # <<>> =>
    (callResult[1] <=> Len(callArgs.title) >= 10 /\ HasTermOf(callArgs.title, ListedTerms))

\* the agency of every configured source, in the order of researchUrls
ConfiguredAgencies ==
  <<"DST", "DBT", "BIRAC", "ICMR", "SERB", "ICSSR", "CEFIPRA", "IGSTC", "TDB", "UGC",
    "SPARC", "NASI", "INSA", NULL>>

\* C18: the resolver answers for every URL: with the code of the first
\* fragment of its list that the URL contains, which is null for the
\* aggregator's fragment, and with "Unknown Agency" when it contains none;
\* a configured source contains one fragment only
ResolverFirstFragment ==
  /\ \A n \in 1..Len(researchUrls) :
       Cardinality({k \in 1..Len(AgencyFragments) :
                      includes(researchUrls[n], AgencyFragments[k][1])}) <= 1
  /\ callArgs.fn = "getSourceAgency" /\ callResult # <<>> =>
       /\ \A k \in 1..Len(AgencyFragments) :
            /\ includes(callArgs.sourceUrl, AgencyFragments[k][1])
            /\ \A j \in 1..(k - 1) : ~includes(callArgs.sourceUrl, AgencyFragments[j][1])
            => callResult[1] = AgencyFragments[k][2]
       /\ (\A k \in 1..Len(AgencyFragments) : ~includes(callArgs.sourceUrl, AgencyFragments[k][1]))
            => callResult[1] = "Unknown Agency"
       /\ \A n \in 1..Len(researchUrls) :
            callArgs.sourceUrl = researchUrls[n] => callResult[1] = ConfiguredAgencies[n]

\* a URL that contains the fragments of SERB and DST was resolved to DST
TwoFragmentsResolved ==
  /\ callArgs.fn = "getSourceAgency"
  /\ includes(callArgs.sourceUrl, "serb.gov.in") /\ includes(callArgs.sourceUrl, "dst.gov.in")
  /\ callResult = <<"DST">>

\* the codes the probes of the content find: in a cell, after "Agency:",
\* after "Department...:"
ProbedCodes(content) ==
  {AgencyCodes[k] : k \in {j \in 1..Len(AgencyCodes) : CellProbe(content, AgencyCodes[j])}}
    \cup ({LabelProbe(content), DeptProbe(content)} \ {NULL})

TitleCodes(title) == {AgencyCodes[k] : k \in {j \in 1..Len(AgencyCodes) : includesCI(title, AgencyCodes[j])}}

\* the codes whose clue the first URL of the content holds
FirstUrlCodes(content) ==
  Let(Scan(UrlMatches(content), 1), LAMBDA urls :
    IF urls = <<>> THEN {}
    ELSE {UrlClues[k][2] : k \in {j \in 1..Len(UrlClues) :
            includes(SubSeq(content, urls[1][1], urls[1][2]), UrlClues[j][1])}})

\* C19: for the aggregator a code probed in the content is returned before
\* a code of the title, that before a code of the first URL of the content,
\* and "Multiple Agencies" only when there is none of them; for any other
\* source the resolver's answer is returned, and the answer is never null
AttributorPriority ==
  callArgs.fn = "extractActualAgency" /\ callResult # <<>> =>
    /\ callResult[1] # NULL
    /\ IF ~includes(callArgs.sourceUrl, "vit.ac.in")
       THEN callResult[1] = getSourceAgency(callArgs.sourceUrl)
       ELSE IF ProbedCodes(callArgs.content) # {}
            THEN callResult[1] \in ProbedCodes(callArgs.content)
       ELSE IF TitleCodes(callArgs.title) # {}
            THEN callResult[1] \in TitleCodes(callArgs.title)
       ELSE IF FirstUrlCodes(callArgs.content) # {}
            THEN callResult[1] \in FirstUrlCodes(callArgs.content)
       ELSE callResult[1] = "Multiple Agencies"

\* on the aggregator a cell of the content says DBT and the title says DST:
\* the answer is DBT
CellBeatsTitle ==
  /\ callArgs.fn = "extractActualAgency"
  /\ includes(callArgs.sourceUrl, "vit.ac.in")
  /\ ProbedCodes(callArgs.content) = {"DBT"}
  /\ TitleCodes(callArgs.title) = {"DST"}
  /\ callResult = <<"DBT">>

\* the instants of the date tokens of a text that normalize to a date
WindowDates(text, env) == {MatchInstant(text, m, env) : m \in DateMatches(text)} \ {NaN}

\* C20 as stated: of the dates of a text without "throughout the year" the
\* earliest is the start and the latest the end when there are two or more,
\* a single one is the end and the start is "Not specified", and with none
\* both are "Not specified"; with the phrase the end is "Rolling Deadline"
\* and the start is "Not specified"
WindowDatesDecide ==
  callArgs.fn = "extractDatesFromText" /\ callResult # <<>> =>
    Let(Record("", "", callResult[1], "", 0), LAMBDA r :
    Let(WindowDates(callArgs.text, hostEnv), LAMBDA dates :
      IF ThroughoutTheYear(callArgs.text)
      THEN r.startDate = "Not specified" /\ r.endDate = "Rolling Deadline"
      ELSE /\ r.startDate = (IF Cardinality(dates) >= 2 THEN toISODate(Min(dates))
                             ELSE "Not specified")
           /\ r.endDate = (IF Cardinality(dates) >= 1 THEN toISODate(Max(dates))
                           ELSE "Not specified")))

\* the URLs of the lines from a to b, in order
RECURSIVE UrlsOfLines(_, _, _)
UrlsOfLines(lines, a, b) ==
  IF a > b THEN <<>>
  ELSE IF a < 1 THEN UrlsOfLines(lines, 1, b)
  ELSE IF b > Len(lines) THEN UrlsOfLines(lines, a, Len(lines))
  ELSE AllUrls(lines[a]) \o UrlsOfLines(lines, a + 1, b)

\* the URLs of a sequence that pass the Link Filter of the page
Accepted(urls) == Filter(urls, [k \in 1..Len(urls) |-> ~shouldSkipLink(urls[k], page.srcUrl)])

\* the pass is at a line of strategy B that the Title Classifier accepts
AtTitleLine ==
  /\ stage = "B"
  /\ cursor <= Len(SplitLines(page.md))
  /\ isValidProposal(trim(SplitLines(page.md)[cursor]))

\* C21 as stated: a title line of strategy B adds at most one record, and
\* the link of that record is the first URL of the window of the line that
\* passes the Link Filter
FirstAcceptedUrlOnly ==
  [][AtTitleLine =>
       /\ Len(proposals') <= Len(proposals) + 1
       /\ Len(proposals') = Len(proposals) + 1 =>
            Let(Accepted(UrlsOfLines(SplitLines(page.md), cursor - 3, cursor + 3)), LAMBDA good :
              good # <<>> /\ proposals'[Len(proposals')].value.link = good[1])]_vars

\* at a title line of strategy B a record is added exactly when a URL of
\* the lines from 3 before to `after` after the line passes the Link Filter
\* and is not yet in the collection with this title, and the link of the
\* record is a URL of these lines
WindowReaches(after) ==
  AtTitleLine =>
    Let(SplitLines(page.md), LAMBDA lines :
    Let(Accepted(UrlsOfLines(lines, cursor - 3, cursor + after)), LAMBDA good :
      /\ Len(proposals') = Len(proposals) + 1
           <=> \E k \in 1..Len(good) : ~MapHas(proposals, MapKey(trim(lines[cursor]), good[k]))
      /\ Len(proposals') = Len(proposals) + 1
           => \E k \in 1..Len(good) : proposals'[Len(proposals')].value.link = good[k]))

\* C22: the window of a title line of strategy B is made of the 3 lines
\* before it, the line and the 3 lines after it, clipped to the content: a
\* URL on the 3rd line after the title line is a candidate, one on the 4th
\* line after it is not
WindowThreeAfter == [][WindowReaches(3)]_vars

\* strategy B is over on the page with a URL on the 3rd line after the
\* title line: the record of that URL is there
ThirdLineAfterUsed ==
  /\ stage = "C"
  /\ page.md = PageThirdAfter
  /\ Len(proposals) = 1
  /\ proposals[1].value.title = "Research grant call"
  /\ proposals[1].value.link = "http://a.org/1"

\* C22 as stated: the window reaches to the 4th line after the title line
WindowFourAfter == [][WindowReaches(4)]_vars

\* C23 as stated: the request for the next source starts out of a pause:
\* the rate pause inside a batch, the batch pause between two batches
PausedBetweenFetches ==
  [][urlIdx >= 1 /\ urlIdx' = urlIdx + 1 /\ pc' = "fetch" =>
       pc = (IF LastOfBatch(urlIdx) THEN "batch_pause" ELSE "pause")]_vars

\* a step of a run that has started: the sources are taken in list order,
\* a request is the only one for its source and within the attempts allowed,
\* a new source starts only when nothing of the one before is pending, and
\* the accumulated records are only appended to
InListOrder ==
  pc \in Positions =>
    /\ urlIdx' # urlIdx => urlIdx' = urlIdx + 1 /\ pc' = "fetch" /\ response' = NoResponse
    /\ fetched' # fetched =>
         /\ pc = "fetch" /\ attempt <= MainMaxRetries
         /\ ~(urlIdx \in fetched) /\ fetched' = fetched \cup {urlIdx}
    /\ Len(allProposals') >= Len(allProposals)
    /\ SubSeq(allProposals', 1, Len(allProposals)) = allProposals

\* C24: a run takes the configured sources one after the other in list
\* order, each once and within the attempts allowed, appends only to the
\* accumulated records, and once its loop has started it reaches its end
\* with every source requested
SequentialRun ==
  /\ [][InListOrder]_vars
  /\ [](pc \in {"finish", "insert", "closing", "done"} => fetched = 1..Len(researchUrls))
  /\ (pc = "fetch" ~> pc = "done")

\* a run is over after the request for the last source, with records
\* accumulated from more than one source
RunEndedAfterLastSource ==
  /\ pc = "done"
  /\ urlIdx = Len(researchUrls)
  /\ fetched = 1..Len(researchUrls)
  /\ Len(allProposals) = 4

\* the last query of a batch that ended without an error
LastQueryOfBatch == pc = "insert" /\ pc' = "closing" /\ ~("insert" \in logged')

\* C25 as stated: the records notified are the records the run inserted; at
\* the last query of a batch, the record it inserted is among the records
\* passed to sendNotification, and the record it met as a duplicate is not
NotifiedAreInserted ==
  [][LastQueryOfBatch =>
       IF store' # store
       THEN insertIdx <= Len(notified') /\ notified'[insertIdx] = newProposals[insertIdx]
       ELSE Len(notified') < insertIdx]_vars

\* the date fields of a record are of the shapes the engine promises
DateFieldsOf(value) ==
  /\ IsISODate(value.endDate) \/ value.endDate \in {"Rolling Deadline", "Not specified"}
  /\ IsISODate(value.startDate) \/ value.startDate = "Not specified"
  /\ IsISODate(value.startDate) =>
       /\ IsISODate(value.endDate)
       /\ NewDate(value.startDate, 0) < NewDate(value.endDate, 0)

\* C26 as stated: every record the engine emits has an endDate that is an
\* ISO date, "Rolling Deadline" or "Not specified" and a startDate that is
\* an ISO date or "Not specified", and a startDate that is an ISO date comes
\* with an endDate that is an ISO date and is strictly earlier than it
DatesWellFormed == \A n \in 1..Len(proposals) : DateFieldsOf(proposals[n].value)

\* C27 as stated: every record the engine emits, whatever the strategy, has
\* a title that is not empty, is its own trimmed form and is accepted by
\* isValidProposal, and a link that shouldSkipLink does not reject for the
\* source of the page
TitlesAndLinksAccepted ==
  \A n \in 1..Len(proposals) :
    /\ proposals[n].value.title # ""
    /\ trim(proposals[n].value.title) = proposals[n].value.title
    /\ isValidProposal(proposals[n].value.title)
    /\ ~shouldSkipLink(proposals[n].value.link, page.srcUrl)

(***************************************************************************)
(* The serving layer: pool, circuit breaker, query wrapper                 *)
(***************************************************************************)
\* new Pool({ max: 3, ... })
POOL_MAX == 3

FAILURE_THRESHOLD == 3

\* executeQuery(query, params = [], maxRetries = 3)
QueryMaxRetries == 3

\* the counter of failures is followed exactly below this value, which
\* stands for itself and every greater count (the code compares the counter
\* with FAILURE_THRESHOLD only)
MaxFailures == 4

\* the pending pool.connect() calls that are followed after their race was lost
MaxOrphans == 1

ConnectPositions == {"gate_connect", "quick_connect", "route_connect"}

QueryPositions == {"gate_query", "quick_query", "route_query"}

\* the request awaits testDatabaseConnection (gate: the reset attempt of an
\* open breaker; quick: the test before next())
InTest(r) == requests[r].at \in {"gate_connect", "gate_query", "quick_connect", "quick_query"}

\* the clients held by a call that releases them
Held == Cardinality({r \in Requests : requests[r].at \in QueryPositions})

Answered(r, status, tested) == requests' = [requests EXCEPT ![r] = NoRequest(status, tested)]

Moved(r, to, tries, tested) ==
  requests' = [requests EXCEPT ![r] = [at |-> to, attempt |-> tries,
                                       answer |-> requests[r].answer, test |-> tested]]

\* a breaker that opens one failure early
ShouldOpenEarly(n) == n >= FAILURE_THRESHOLD - 1

\* if (consecutiveFailures >= FAILURE_THRESHOLD) circuitBreakerOpen = true
ShouldOpen(n) == n >= FAILURE_THRESHOLD

\* testDatabaseConnection, after SELECT 1: the reset of the breaker
TestPassed ==
  /\ consecutiveFailures' = 0
  /\ circuitBreakerOpen' = FALSE
  /\ UNCHANGED timeoutElapsed

\* testDatabaseConnection, the catch: count, stamp, and open at the threshold
TestFailed ==
  /\ consecutiveFailures' = Min({consecutiveFailures + 1, MaxFailures})
  /\ timeoutElapsed' = FALSE
  /\ circuitBreakerOpen' = (circuitBreakerOpen \/ ShouldOpen(consecutiveFailures'))

\* the middleware after its await: the reset attempt answers 503 while the
\* breaker is open and goes on to the quick test otherwise; the quick test
\* calls next() when it passed and answers 503 when it threw
AfterTest(r, passed) ==
  LET test == IF passed THEN "passed" ELSE "failed"
  IN IF requests[r].at \in {"gate_connect", "gate_query"}
     THEN IF circuitBreakerOpen'
          THEN Answered(r, "503", test)
          ELSE Moved(r, "quick_connect", 0, test)
     ELSE IF passed
          THEN Moved(r, "route_connect", 1, test)
          ELSE Answered(r, "503", test)

\* executeQuery, the catch of an attempt whose error is not a syntax error:
\* wait and try again, or throw the last error to the route, which answers 500
AfterAttempt(r) ==
  IF requests[r].attempt < QueryMaxRetries
  THEN Moved(r, "route_connect", requests[r].attempt + 1, requests[r].test)
  ELSE Answered(r, "500", requests[r].test)

\* a request enters the middleware
Arrive(r) ==
  /\ requests[r].at = "idle"
  /\ IF circuitBreakerOpen
     THEN IF timeoutElapsed
          THEN Moved(r, "gate_connect", 0, "none")
          ELSE Answered(r, "503", "none")
     ELSE Moved(r, "quick_connect", 0, "none")
  /\ UNCHANGED <<circuitBreakerOpen, consecutiveFailures, timeoutElapsed, dbUp, checkedOut,
                 orphans>>
  /\ UNCHANGED <<hostEnv, store, runVars, passVars>>

\* Promise.race: pool.connect() resolves first, with a client
ConnectWins(r) ==
  /\ requests[r].at \in ConnectPositions
  /\ dbUp /\ checkedOut < POOL_MAX
  /\ checkedOut' = checkedOut + 1
  /\ Moved(r, CASE requests[r].at = "gate_connect" -> "gate_query"
                [] requests[r].at = "quick_connect" -> "quick_query"
                [] OTHER -> "route_query",
           requests[r].attempt, requests[r].test)
  /\ UNCHANGED <<circuitBreakerOpen, consecutiveFailures, timeoutElapsed, dbUp, orphans>>
  /\ UNCHANGED <<hostEnv, store, runVars, passVars>>

\* Promise.race: the race is lost, client stays null.  Either pool.connect()
\* rejected, or the timer fired first and pool.connect() is still pending
\* (pending: the pool may yet hand out its client)
ConnectLoses(r, pending) ==
  /\ requests[r].at \in ConnectPositions
  /\ ~dbUp \/ checkedOut >= POOL_MAX
  /\ IF pending
     THEN orphans < MaxOrphans /\ orphans' = orphans + 1
     ELSE UNCHANGED orphans
  /\ IF InTest(r)
     THEN TestFailed /\ AfterTest(r, FALSE)
     ELSE /\ AfterAttempt(r)
          /\ UNCHANGED <<circuitBreakerOpen, consecutiveFailures, timeoutElapsed>>
  /\ UNCHANGED <<dbUp, checkedOut>>
  /\ UNCHANGED <<hostEnv, store, runVars, passVars>>

\* client.query settles and the client is released: "ok" the result, "error"
\* a connection error, "syntax" an error with one of the codes 42P01, 42703, 23505
QuerySettles(r, settled) ==
  /\ requests[r].at \in QueryPositions
  /\ settled = "ok" => dbUp
  /\ settled = "error" => ~dbUp
  /\ settled = "syntax" => requests[r].at = "route_query"
  /\ checkedOut' = checkedOut - 1
  /\ IF InTest(r)
     THEN IF settled = "ok"
          THEN TestPassed /\ AfterTest(r, TRUE)
          ELSE TestFailed /\ AfterTest(r, FALSE)
     ELSE /\ CASE settled = "ok" -> Answered(r, "200", requests[r].test)
               [] settled = "syntax" -> Answered(r, "500", requests[r].test)
               [] OTHER -> AfterAttempt(r)
          /\ UNCHANGED <<circuitBreakerOpen, consecutiveFailures, timeoutElapsed>>
  /\ UNCHANGED <<dbUp, orphans>>
  /\ UNCHANGED <<hostEnv, store, runVars, passVars>>

\* a pool.connect() whose race was lost resolves: the pool checks a client
\* out and no code holds it
OrphanConnects ==
  /\ orphans > 0
  /\ dbUp /\ checkedOut < POOL_MAX
  /\ orphans' = orphans - 1
  /\ checkedOut' = checkedOut + 1
  /\ UNCHANGED <<circuitBreakerOpen, consecutiveFailures, timeoutElapsed, dbUp, requests>>
  /\ UNCHANGED <<hostEnv, store, runVars, passVars>>

\* a pool.connect() whose race was lost rejects (connectionTimeoutMillis)
OrphanRejected ==
  /\ orphans > 0
  /\ ~dbUp \/ checkedOut >= POOL_MAX
  /\ orphans' = orphans - 1
  /\ UNCHANGED <<circuitBreakerOpen, consecutiveFailures, timeoutElapsed, dbUp, checkedOut,
                 requests>>
  /\ UNCHANGED <<hostEnv, store, runVars, passVars>>

\* CIRCUIT_BREAKER_TIMEOUT passes without a failure
TimeoutPasses ==
  /\ ~timeoutElapsed
  /\ timeoutElapsed' = TRUE
  /\ UNCHANGED <<circuitBreakerOpen, consecutiveFailures, dbUp, checkedOut, orphans, requests>>
  /\ UNCHANGED <<hostEnv, store, runVars, passVars>>

\* the database stops answering, and answers again
DatabaseFails ==
  /\ dbUp
  /\ dbUp' = FALSE
  /\ UNCHANGED <<circuitBreakerOpen, consecutiveFailures, timeoutElapsed, checkedOut, orphans,
                 requests>>
  /\ UNCHANGED <<hostEnv, store, runVars, passVars>>

DatabaseRecovers ==
  /\ ~dbUp
  /\ dbUp' = TRUE
  /\ UNCHANGED <<circuitBreakerOpen, consecutiveFailures, timeoutElapsed, checkedOut, orphans,
                 requests>>
  /\ UNCHANGED <<hostEnv, store, runVars, passVars>>

InitServe ==
  /\ hostEnv = [tz |-> 0, year |-> CurrentYear]
  /\ store = <<>>
  /\ pc = "idle"
  /\ urlIdx = 0
  /\ attempt = 0
  /\ backoffs = 0
  /\ response = NoResponse
  /\ existingProposals = {}
  /\ allProposals = <<>>
  /\ newProposals = <<>>
  /\ uniqueProposals = <<>>
  /\ insertIdx = 0
  /\ insertedCount = 0
  /\ notified = <<>>
  /\ outcome = "none"
  /\ fetched = {}
  /\ logged = {}
  /\ page = [md |-> "", srcUrl |-> ""]
  /\ stage = "done"
  /\ cursor = 0
  /\ proposals = <<>>
  /\ callArgs = NoCall
  /\ callResult = <<>>
  /\ ServerAtRest

\* what one request does next
Settle(r) ==
  \/ ConnectWins(r)
  \/ \E pending \in BOOLEAN : ConnectLoses(r, pending)
  \/ \E settled \in {"ok", "error", "syntax"} : QuerySettles(r, settled)

NextServe ==
  \/ \E r \in Requests : Arrive(r)
  \/ \E r \in Requests : Settle(r)
  \/ OrphanConnects
  \/ OrphanRejected
  \/ TimeoutPasses
  \/ DatabaseFails
  \/ DatabaseRecovers

SpecServe == InitServe /\ [][NextServe]_vars

\* every await of a request settles (each race has its timer), requests
\* keep arriving, time passes, and a pending connect is answered by the pool
SpecServeFair ==
  /\ SpecServe
  /\ \A r \in Requests : WF_vars(Arrive(r)) /\ WF_vars(Settle(r))
  /\ WF_vars(TimeoutPasses)
  /\ WF_vars(OrphanConnects)
  /\ WF_vars(OrphanRejected)

\* C28 as stated: every client the pool hands out is released once; at any
\* moment the clients checked out are those a running call holds and
\* releases when its query settles
EveryClientReleased == checkedOut = Held

\* a connection test of the request ends in this step
TestEnds(r) ==
  /\ InTest(r)
  /\ requests'[r] # requests[r]
  /\ ~(requests'[r].at \in QueryPositions)

BreakerCounts(r) ==
  TestEnds(r) =>
    /\ requests'[r].test \in {"passed", "failed"}
    /\ requests'[r].test = "passed" => consecutiveFailures' = 0 /\ ~circuitBreakerOpen'
    /\ requests'[r].test = "failed" /\ consecutiveFailures < MaxFailures =>
         consecutiveFailures' = consecutiveFailures + 1

\* C29: the breaker is open only with at least FAILURE_THRESHOLD failures
\* counted; a connection test that passes sets the count to 0 and closes
\* the breaker; a connection test that fails adds one to the count
BreakerFollowsCount ==
  /\ [](circuitBreakerOpen => consecutiveFailures >= FAILURE_THRESHOLD)
  /\ [][\A r \in Requests : BreakerCounts(r)]_vars

\* the breaker was opened by the failures of one request while the
\* connection test of another, begun before, still holds its client
OpenedWhileTestInFlight ==
  /\ circuitBreakerOpen
  /\ consecutiveFailures = FAILURE_THRESHOLD
  /\ \E r, q \in Requests :
       requests[r].at = "quick_query" /\ requests[q].at = "idle" /\ requests[q].test = "failed"

\* C30 as stated, its last part: when the database stays healthy, requests
\* reach a route handler again and again
ServedAgain ==
  <>[]dbUp => []<>(\E r \in Requests : requests[r].at = "route_connect")

====
